---------------------------- MODULE Spec2Model ----------------------------
(***************************************************************************)
(* Resume-Parser: section segmentation, per-section entry extraction and   *)
(* the ResumeParser.parse pipeline.                                        *)
(*                                                                         *)
(* A text is a sequence of tokens.  A token is a word, a punctuation mark  *)
(* or one whitespace character (" " or "\n"); every character of the text  *)
(* belongs to exactly one token, so character offsets are sums of token    *)
(* lengths and slicing at line starts is exact.  Regular expressions of    *)
(* the source are evaluated on tokens: \b(kw)\b is "some token is kw",     *)
(* a phrase is a run of tokens separated by whitespace tokens.             *)
(***************************************************************************)
EXTENDS Integers, Sequences, FiniteSets, TLC

(***************************************************************************)
(* Operators are applied through call, the one place where the name of an  *)
(* operator stands for its definition: F(x) is call("F", <<x>>), which is  *)
(* F_body(x).  TLC then expands the definition of an operator once, where  *)
(* call names it, and not again at each place the operator is applied.     *)
(***************************************************************************)
RECURSIVE call(_, _)

LowerWord(w) == call("LowerWord", <<w>>)
TitleWords == call("TitleWords", <<>>)
CapitalWords == call("CapitalWords", <<>>)
PunctWords == call("PunctWords", <<>>)
WordsWith(k) == call("WordsWith", <<k>>)
WordsWithExact(k) == call("WordsWithExact", <<k>>)
StartsWith(k) == call("StartsWith", <<k>>)
EndsWith(k) == call("EndsWith", <<k>>)
StartsWithExact(k) == call("StartsWithExact", <<k>>)
EndsWithExact(k) == call("EndsWithExact", <<k>>)
CapsRun(w) == call("CapsRun", <<w>>)
CodePoints(w) == call("CodePoints", <<w>>)
RestOf(w) == call("RestOf", <<w>>)
clean_text(t) == call("clean_text", <<t>>)
normalize_whitespace(t) == call("normalize_whitespace", <<t>>)
SECTION_TITLES(n) == call("SECTION_TITLES", <<n>>)
IsSeparator(line) == call("IsSeparator", <<line>>)
identify_section_title(line) == call("identify_section_title", <<line>>)
BoundaryScan(lines, i, current_position, bounds, header_found) == call("BoundaryScan", <<lines, i, current_position, bounds, header_found>>)
FallbackScan(lines, i, current_position, bounds) == call("FallbackScan", <<lines, i, current_position, bounds>>)
identify_section_boundaries(text) == call("identify_section_boundaries", <<text>>)
clean_section_title(section_text, section_name) == call("clean_section_title", <<section_text, section_name>>)
Put(d, n, t) == call("Put", <<d, n, t>>)
SliceSections(text, bounds, i, sections) == call("SliceSections", <<text, bounds, i, sections>>)
CertMatchStart(t) == call("CertMatchStart", <<t>>)
PostProcessScan(sections, i, processed_sections) == call("PostProcessScan", <<sections, i, processed_sections>>)
extract_sections(text) == call("extract_sections", <<text>>)
SkipWS(s, i) == call("SkipWS", <<s, i>>)
AlphaRunEnd(s, c) == call("AlphaRunEnd", <<s, c>>)
WordRunEnd(s, c) == call("WordRunEnd", <<s, c>>)
DEGREE_PATTERNS == call("DEGREE_PATTERNS", <<>>)
AltEnd(s, j, alt) == call("AltEnd", <<s, j, alt>>)
DegreeSplitPoints(text) == call("DegreeSplitPoints", <<text>>)
split_education_entries(text) == call("split_education_entries", <<text>>)
FULL_DEGREE_INDICATORS == call("FULL_DEGREE_INDICATORS", <<>>)
split_by_degree_indicators(text) == call("split_by_degree_indicators", <<text>>)
InField(s, k, ci) == call("InField", <<s, k, ci>>)
FieldAfter(text, degree) == call("FieldAfter", <<text, degree>>)
KeywordPhrase(text, keyword) == call("KeywordPhrase", <<text, keyword>>)
extract_degree(text) == call("extract_degree", <<text>>)
COMMON_FIELDS == call("COMMON_FIELDS", <<>>)
CommonField(s) == call("CommonField", <<s>>)
is_valid_field(field) == call("is_valid_field", <<field>>)
FieldByHead(text, p) == call("FieldByHead", <<text, p>>)
FromInstitution(s, e) == call("FromInstitution", <<s, e>>)
FieldBeforeInstitution(text) == call("FieldBeforeInstitution", <<text>>)
extract_field_of_study(text) == call("extract_field_of_study", <<text>>)
extract_concentration(text) == call("extract_concentration", <<text>>)
COMMON_INSTITUTIONS == call("COMMON_INSTITUTIONS", <<>>)
extract_institution(text) == call("extract_institution", <<text>>)
DateRange(text) == call("DateRange", <<text>>)
DateGroupEnd(s, j, p) == call("DateGroupEnd", <<s, j, p>>)
extract_dates(text) == call("extract_dates", <<text>>)
NumEnds(s, b, dot) == call("NumEnds", <<s, b, dot>>)
HonorsPhrases == call("HonorsPhrases", <<>>)
ScorePhrases == call("ScorePhrases", <<>>)
PhraseSearch(s, ps) == call("PhraseSearch", <<s, ps>>)
ScoreMatch(text, p) == call("ScoreMatch", <<text, p>>)
extract_score(text) == call("extract_score", <<text>>)
DegreeWithField(degree, field_of_study) == call("DegreeWithField", <<degree, field_of_study>>)
DegreeWithConcentration(degree, concentration) == call("DegreeWithConcentration", <<degree, concentration>>)
EducationRecord(clean_entry, degree, institution) == call("EducationRecord", <<clean_entry, degree, institution>>)
EducationFields(clean_entry, lines, degree, institution) == call("EducationFields", <<clean_entry, lines, degree, institution>>)
CleanEducationEntry(entry, clean_entry) == call("CleanEducationEntry", <<entry, clean_entry>>)
EducationEntries(entries, found) == call("EducationEntries", <<entries, found>>)
extract_education(text) == call("extract_education", <<text>>)
HasPair(s, w1, w2) == call("HasPair", <<s, w1, w2>>)
JOB_TITLE_PATTERNS == call("JOB_TITLE_PATTERNS", <<>>)
COMPANY_PATTERNS == call("COMPANY_PATTERNS", <<>>)
COMMON_COMPANIES == call("COMMON_COMPANIES", <<>>)
HasCompany(text, c) == call("HasCompany", <<text, c>>)
HasYearRange(s) == call("HasYearRange", <<s>>)
is_likely_experience_section(text) == call("is_likely_experience_section", <<text>>)
TitleSplitPoints(text) == call("TitleSplitPoints", <<text>>)
split_experience_entries(text) == call("split_experience_entries", <<text>>)
SPECIFIC_TITLES == call("SPECIFIC_TITLES", <<>>)
TitleAt(s, j, t) == call("TitleAt", <<s, j, t>>)
extract_job_title(text) == call("extract_job_title", <<text>>)
TwoWords(l, ended) == call("TwoWords", <<l, ended>>)
SecondLineCompany(l) == call("SecondLineCompany", <<l>>)
extract_company(text) == call("extract_company", <<text>>)
DateEnd(s, j, form, ws) == call("DateEnd", <<s, j, form, ws>>)
EXPERIENCE_DATE_PATTERNS == call("EXPERIENCE_DATE_PATTERNS", <<>>)
RangeMatch(s, pat) == call("RangeMatch", <<s, pat>>)
extract_date_range(text) == call("extract_date_range", <<text>>)
MarkerEnd(text, m, p) == call("MarkerEnd", <<text, m, p>>)
Markers(text, p) == call("Markers", <<text, p>>)
BulletText(text, m, p) == call("BulletText", <<text, m, p>>)
extract_responsibilities(text) == call("extract_responsibilities", <<text>>)
AbcTechEntry(text) == call("AbcTechEntry", <<text>>)
MonthNames == call("MonthNames", <<>>)
TestDate(text) == call("TestDate", <<text>>)
test_patterns == call("test_patterns", <<>>)
TestMatch(text, pat) == call("TestMatch", <<text, pat>>)
TestEntry(text, pat) == call("TestEntry", <<text, pat>>)
ExperienceEntry(entry) == call("ExperienceEntry", <<entry>>)
ExperienceEntries(entries, found) == call("ExperienceEntries", <<entries, found>>)
extract_experience(text) == call("extract_experience", <<text>>)
ISSUER_PATTERNS == call("ISSUER_PATTERNS", <<>>)
ID_PATTERNS == call("ID_PATTERNS", <<>>)
HasTriple(s, x, y, z) == call("HasTriple", <<s, x, y, z>>)
MongoNameMatch(text) == call("MongoNameMatch", <<text>>)
handle_mongodb_geeksforgeeks_cert(text) == call("handle_mongodb_geeksforgeeks_cert", <<text>>)
AwsNameMatch(text) == call("AwsNameMatch", <<text>>)
handle_aws_certification(text) == call("handle_aws_certification", <<text>>)
split_certification_entries(text) == call("split_certification_entries", <<text>>)
SplitOnce(text) == call("SplitOnce", <<text>>)
extract_issuer(text) == call("extract_issuer", <<text>>)
CertDateEnd(s, j, p) == call("CertDateEnd", <<s, j, p>>)
CertDateMatch(text, p) == call("CertDateMatch", <<text, p>>)
extract_date(text) == call("extract_date", <<text>>)
IdRunEnd(s, g) == call("IdRunEnd", <<s, g>>)
extract_credential_id(text) == call("extract_credential_id", <<text>>)
CertificationEntry(entry) == call("CertificationEntry", <<entry>>)
CertificationEntries(entries, found) == call("CertificationEntries", <<entries, found>>)
extract_certifications(text) == call("extract_certifications", <<text>>)
NameRunEnd(s, c) == call("NameRunEnd", <<s, c>>)
StartMatchEnd(text, k) == call("StartMatchEnd", <<text, k>>)
split_project_entries(text) == call("split_project_entries", <<text>>)
extract_project_name(text) == call("extract_project_name", <<text>>)
PROJECT_DATE_PATTERNS == call("PROJECT_DATE_PATTERNS", <<>>)
YearMatch(text) == call("YearMatch", <<text>>)
project_date_range(text) == call("project_date_range", <<text>>)
TECHNOLOGY_HEADINGS == call("TECHNOLOGY_HEADINGS", <<>>)
HeadingTechnologies(text) == call("HeadingTechnologies", <<text>>)
UsingEnd(text, j) == call("UsingEnd", <<text, j>>)
InGroupStart(text, j) == call("InGroupStart", <<text, j>>)
UsingTechnologies(text) == call("UsingTechnologies", <<text>>)
extract_description(text) == call("extract_description", <<text>>)
ProjectEntry(entry) == call("ProjectEntry", <<entry>>)
ProjectEntries(entries, found) == call("ProjectEntries", <<entries, found>>)
extract_projects(text) == call("extract_projects", <<text>>)
TECH_SKILLS_CATEGORIES == call("TECH_SKILLS_CATEGORIES", <<>>)
SOFT_SKILLS == call("SOFT_SKILLS", <<>>)
TOOLS_SOFTWARE == call("TOOLS_SOFTWARE", <<>>)
SkillEnd(text, j, p) == call("SkillEnd", <<text, j, p>>)
SoftAt(text, j) == call("SoftAt", <<text, j>>)
CodePointsBefore(a, b) == call("CodePointsBefore", <<a, b>>)
extract_soft_skills(text) == call("extract_soft_skills", <<text>>)
extract_tools(text) == call("extract_tools", <<text>>)
LabelAt(text, j, label) == call("LabelAt", <<text, j, label>>)
LabelLine(text, label) == call("LabelLine", <<text, label>>)
LabelSeparator(text, j, label) == call("LabelSeparator", <<text, j, label>>)
FormattedLine(text, label) == call("FormattedLine", <<text, label>>)
extract_section_skills(text, label) == call("extract_section_skills", <<text, label>>)
extract_skills_from_formatted_sections(text) == call("extract_skills_from_formatted_sections", <<text>>)
CategorizedSkills(text, label) == call("CategorizedSkills", <<text, label>>)
extract_skills_from_categorized_format(text) == call("extract_skills_from_categorized_format", <<text>>)
DashSeparator(text, j, label) == call("DashSeparator", <<text, j, label>>)
DashLine(text, label) == call("DashLine", <<text, label>>)
CommaOrSpaceSplit(line) == call("CommaOrSpaceSplit", <<line>>)
extract_skills_from_dash_format(text) == call("extract_skills_from_dash_format", <<text>>)
extract_skills_general(text) == call("extract_skills_general", <<text>>)
extract_skills(text) == call("extract_skills", <<text>>)
CombinedTechnical(results, c) == call("CombinedTechnical", <<results, c>>)
extract_skills_from_sections(sections) == call("extract_skills_from_sections", <<sections>>)
KnownInstitution(text, edu) == call("KnownInstitution", <<text, edu>>)
KnownEducation(text, r, sections, section_names) == call("KnownEducation", <<text, r, sections, section_names>>)
EducationStep(text, sections, section_names) == call("EducationStep", <<text, sections, section_names>>)
GroupStart(text, j) == call("GroupStart", <<text, j>>)
NextHeading(text, c) == call("NextHeading", <<text, c>>)
HeadingText(text, heading) == call("HeadingText", <<text, heading>>)
TestPhraseAt(text, i) == call("TestPhraseAt", <<text, i>>)
TestExperienceMatch(text) == call("TestExperienceMatch", <<text>>)
TestExperienceText(text) == call("TestExperienceText", <<text>>)
InternshipRescued(st, internship_text, r) == call("InternshipRescued", <<st, internship_text, r>>)
InternshipRescue(text, st) == call("InternshipRescue", <<text, st>>)
ExperienceStep(text, sections, section_names) == call("ExperienceStep", <<text, sections, section_names>>)
Rescue(text, sections, section_names, name, heading) == call("Rescue", <<text, sections, section_names, name, heading>>)
SkillsStep(text, sections, section_names) == call("SkillsStep", <<text, sections, section_names>>)
ProjectsStep(text, sections, section_names) == call("ProjectsStep", <<text, sections, section_names>>)
EducationCertifications(st, education_text) == call("EducationCertifications", <<st, education_text>>)
CertificationsStep(text, sections, section_names) == call("CertificationsStep", <<text, sections, section_names>>)
InternshipInvoked(text, tested) == call("InternshipInvoked", <<text, tested>>)
ExperienceInvoked(text, sections, section_names) == call("ExperienceInvoked", <<text, sections, section_names>>)
CertificationsInvoked(text, sections, section_names) == call("CertificationsInvoked", <<text, sections, section_names>>)
SegmentStep(t) == call("SegmentStep", <<t>>)
Frame(st) == call("Frame", <<st>>)
parse_steps(text) == call("parse_steps", <<text>>)

NL == "\n"
SP == " "
TAB == "\t"
WS == {SP, NL, TAB}

\* the bullet U+2022 and the em dash U+2014, each one character and one
\* token of a text; the module names them with characters that no text holds
BULLET == "@"
EM_DASH == "~"

(***************************************************************************)
(* Character data of the words used in the documents (str.lower, isupper,  *)
(* istitle and the prefixes the source's patterns look for).               *)
(***************************************************************************)
\* ---- character data of the tokens ----
\* str.lower() of one token; the tokens named are the ones written with
\* capital letters
LowerWord_body(w) ==
  CASE w = "EDUCATION" -> "education"
    [] w = "EXPERIENCE" -> "experience"
    [] w = "SKILLS" -> "skills"
    [] w = "PROJECTS" -> "projects"
    [] w = "CERTIFICATIONS" -> "certifications"
    [] w = "INTERNSHIP" -> "internship"
    [] w = "Bachelor" -> "bachelor"
    [] w = "Science" -> "science"
    [] w = "Computer" -> "computer"
    [] w = "New" -> "new"
    [] w = "York" -> "york"
    [] w = "University" -> "university"
    [] w = "Doe" -> "doe"
    [] w = "GPA" -> "gpa"
    [] w = "Marathwada" -> "marathwada"
    [] w = "Diploma" -> "diploma"
    [] w = "Education" -> "education"
    [] w = "Engineering" -> "engineering"
    [] w = "Master" -> "master"
    [] w = "Arts" -> "arts"
    [] w = "Honors" -> "honors"
    [] w = "Concentration" -> "concentration"
    [] w = "College" -> "college"
    [] w = "Mitra" -> "mitra"
    [] w = "Mandal" -> "mandal"
    [] w = "MMM" -> "mmm"
    [] w = "Software" -> "software"
    [] w = "Engineer" -> "engineer"
    [] w = "ABC" -> "abc"
    [] w = "Tech" -> "tech"
    [] w = "June" -> "june"
    [] w = "Present" -> "present"
    [] w = "Intern" -> "intern"
    [] w = "Work" -> "work"
    [] w = "Developer" -> "developer"
    [] w = "Experience" -> "experience"
    [] w = "Did" -> "did"
    [] w = "X" -> "x"
    [] w = "Y" -> "y"
    [] w = "San" -> "san"
    [] w = "Francisco" -> "francisco"
    [] w = "CA" -> "ca"
    [] w = "AWS" -> "aws"
    [] w = "Certified" -> "certified"
    [] w = "Associate" -> "associate"
    [] w = "Amazon" -> "amazon"
    [] w = "Web" -> "web"
    [] w = "Services" -> "services"
    [] w = "MongoDB" -> "mongodb"
    [] w = "GeeksforGeeks" -> "geeksforgeeks"
    [] w = "Developers" -> "developers"
    [] w = "Tool" -> "tool"
    [] w = "Kit" -> "kit"
    [] w = "Certificate" -> "certificate"
    [] w = "Programming" -> "programming"
    [] w = "Languages" -> "languages"
    [] w = "Python" -> "python"
    [] w = "Java" -> "java"
    [] w = "Databases" -> "databases"
    [] w = "Tools" -> "tools"
    [] w = "Git" -> "git"
    [] w = "Soft" -> "soft"
    [] w = "Skills" -> "skills"
    [] w = "Personal" -> "personal"
    [] w = "Website" -> "website"
    [] w = "Junior" -> "junior"
    [] w = "Senior" -> "senior"
    [] w = "XYZ" -> "xyz"
    [] w = "Solutions" -> "solutions"
    [] w = "Inc" -> "inc"
    [] w = "Jenkins" -> "jenkins"
    [] w = "John" -> "john"
    [] w = "Summary" -> "summary"
    [] w = "NASA" -> "nasa"
    [] w = "QUALIFICATION" -> "qualification"
    [] w = "Profile" -> "profile"
    [] w = "Teamwork" -> "teamwork"
    [] w = "Researched" -> "researched"
    [] w = "DataCorp" -> "datacorp"
    [] w = "Analytics" -> "analytics"
    [] w = "TechStart" -> "techstart"
    [] w = "Insight" -> "insight"
    [] w = "Data" -> "data"
    [] w = "Systems" -> "systems"
    [] w = "Innovations" -> "innovations"
    [] w = "Global" -> "global"
    [] w = "Digital" -> "digital"
    [] w = "Scientist" -> "scientist"
    [] OTHER -> w

\* tokens written in capitals only (str.isupper of the token)
UpperWords ==
  {"EDUCATION", "EXPERIENCE", "SKILLS", "PROJECTS", "CERTIFICATIONS",
   "INTERNSHIP", "GPA", "MMM", "ABC", "X", "Y", "CA", "AWS", "XYZ", "NASA",
   "QUALIFICATION"}

\* tokens written as a capital followed by small letters (str.istitle)
TitleWords_body ==
  {"Bachelor", "Science", "Computer", "New", "York", "University", "Doe",
   "Marathwada", "Diploma", "Education", "Engineering", "Master", "Arts",
   "Honors", "Concentration", "College", "Mitra", "Mandal", "Software",
   "Engineer", "Tech", "June", "Present", "Intern", "Work", "Developer",
   "Experience", "Did", "X", "Y", "San", "Francisco", "Certified",
   "Associate", "Amazon", "Web", "Services", "Developers", "Tool", "Kit",
   "Certificate", "Programming", "Languages", "Python", "Java", "Databases",
   "Tools", "Git", "Soft", "Skills", "Personal", "Website", "Junior",
   "Senior", "Solutions", "Inc", "Jenkins", "John", "Summary", "Profile",
   "Teamwork", "Researched", "Analytics", "Insight", "Data", "Systems",
   "Innovations", "Global", "Digital", "Scientist"}

\* tokens that begin with a capital letter ([A-Z])
CapitalWords_body ==
  {"EDUCATION", "EXPERIENCE", "SKILLS", "PROJECTS", "CERTIFICATIONS",
   "INTERNSHIP", "Bachelor", "Science", "Computer", "New", "York",
   "University", "Doe", "GPA", "Marathwada", "Diploma", "Education",
   "Engineering", "Master", "Arts", "Honors", "Concentration", "College",
   "Mitra", "Mandal", "MMM", "Software", "Engineer", "ABC", "Tech", "June",
   "Present", "Intern", "Work", "Developer", "Experience", "Did", "X", "Y",
   "San", "Francisco", "CA", "AWS", "Certified", "Associate", "Amazon",
   "Web", "Services", "MongoDB", "GeeksforGeeks", "Developers", "Tool",
   "Kit", "Certificate", "Programming", "Languages", "Python", "Java",
   "Databases", "Tools", "Git", "Soft", "Skills", "Personal", "Website",
   "Junior", "Senior", "XYZ", "Solutions", "Inc", "Jenkins", "John",
   "Summary", "NASA", "QUALIFICATION", "Profile", "Teamwork", "Researched",
   "DataCorp", "Analytics", "TechStart", "Insight", "Data", "Systems",
   "Innovations", "Global", "Digital", "Scientist"}

\* tokens that are runs of the characters - _ =
DashRuns ==
  {"-", "--", "---", "----", "-----", "------", "="}

\* tokens that are runs of the characters * + #
StarRuns ==
  {"*", "**", "***", "+"}

\* tokens made of the characters [:\-_=*#...] that _identify_section_title
\* deletes
FormatWords ==
  {":", "-", "--", "---", "----", "-----", "------", "*", "**", "***", "=",
   "@"}

\* tokens that hold a character outside \w
PunctWords_body ==
  {",", ":", "-", "--", "---", "----", "-----", "------", "*", "**", "***",
   ".", "|", ";", "/", "&", "'", "%", "=", "+", "[", "]", "@", "~"}

\* tokens that hold a digit
NumberWords ==
  {"3", "8", "2016", "2020", "2021", "2024", "06", "1"}

\* tokens made of digits only (\d+)
IntWords ==
  {"3", "8", "2016", "2020", "2021", "2024", "06", "1"}

\* tokens of four digits (\d{4})
YearWords ==
  {"2016", "2020", "2021", "2024"}

\* the tokens whose small-letter form contains k (k in s.lower(), or an
\* unanchored case-insensitive pattern k)
WordsWith_body(k) ==
  CASE k = "bachelor" ->
        {"Bachelor"}
    [] k = "master" ->
        {"Master"}
    [] k = "degree" ->
        {}
    [] k = "bs" ->
        {"Website"}
    [] k = "ms" ->
        {"Systems"}
    [] k = "ba" ->
        {"Bachelor", "Databases", "Global"}
    [] k = "ma" ->
        {"Marathwada", "Diploma", "Master", "Mandal", "Amazon", "Summary",
         "loremipsumdolorsitametconsecteturadipiscingelitseddoeiusmodtemporincididuntutlaboreetdoloremagnaaliquautenimadminimveniamquisnostrudexercitationullamcolaborisnisiutaliquipexeacommodoconsequatduisauteiruredolorinrepre"}
    [] k = "phd" ->
        {}
    [] k = "university" ->
        {"University"}
    [] k = "college" ->
        {"College"}
    [] k = "institute" ->
        {}
    [] k = "school" ->
        {}
    [] k = "in" ->
        {"INTERNSHIP", "in", "Engineering", "Engineer", "Intern",
         "Programming", "Inc", "Jenkins", "Insight", "Innovations",
         "loremipsumdolorsitametconsecteturadipiscingelitseddoeiusmodtemporincididuntutlaboreetdoloremagnaaliquautenimadminimveniamquisnostrudexercitationullamcolaborisnisiutaliquipexeacommodoconsequatduisauteiruredolorinrepre"}
    [] k = "concentration" ->
        {"Concentration"}
    [] k = "education" ->
        {"EDUCATION", "Education"}
    [] k = "studies" ->
        {}
    [] k = "major" ->
        {}
    [] k = "certification" ->
        {"CERTIFICATIONS", "certification"}
    [] k = "certificate" ->
        {"Certificate"}
    [] k = "certified" ->
        {"Certified"}
    [] k = "credential" ->
        {}
    [] k = "license" ->
        {"license"}
    [] k = "science" ->
        {"Science"}
    [] k = "engineering" ->
        {"Engineering"}
    [] k = "technology" ->
        {}
    [] k = "arts" ->
        {"Arts"}
    [] k = "management" ->
        {}
    [] k = "design" ->
        {}
    [] k = "analysis" ->
        {}
    [] k = "systems" ->
        {"Systems"}
    [] k = "merit" ->
        {}
    [] k = "distinction" ->
        {}
    [] k = "mit" ->
        {"Mitra"}
    [] k = "penn" ->
        {}

\* the tokens that contain k as written (k in s)
WordsWithExact_body(k) ==
  CASE k = "2024" ->
        {"2024"}
    [] k = "2021" ->
        {"2021"}
    [] k = "Marathwada" ->
        {"Marathwada"}
    [] k = "MMM" ->
        {"MMM"}
    [] k = "Bachelor" ->
        {"Bachelor"}
    [] k = "Computer" ->
        {"Computer"}
    [] k = "MongoDB" ->
        {"MongoDB"}
    [] k = "GeeksforGeeks" ->
        {"GeeksforGeeks"}
    [] k = "SKILLS" ->
        {"SKILLS"}
    [] k = "Python" ->
        {"Python"}
    [] k = "Jenkins" ->
        {"Jenkins"}
    [] k = "Present" ->
        {"Present"}

\* the tokens whose small-letter form begins with k
StartsWith_body(k) ==
  CASE k = "university" ->
        {"University"}
    [] k = "college" ->
        {"College"}
    [] k = "institute" ->
        {}
    [] k = "school" ->
        {}
    [] k = "bachelor" ->
        {"Bachelor"}
    [] k = "master" ->
        {"Master"}
    [] k = "phd" ->
        {}
    [] k = "doctorate" ->
        {}
    [] k = "associate" ->
        {"Associate"}
    [] k = "certificate" ->
        {"Certificate"}
    [] k = "diploma" ->
        {"Diploma"}
    [] k = "certification" ->
        {"CERTIFICATIONS", "certification"}
    [] k = "certified" ->
        {"Certified"}
    [] k = "credential" ->
        {}
    [] k = "license" ->
        {"license"}
    [] k = "accredit" ->
        {}
    [] k = "jan" ->
        {}
    [] k = "feb" ->
        {}
    [] k = "mar" ->
        {"Marathwada"}
    [] k = "apr" ->
        {}
    [] k = "may" ->
        {}
    [] k = "jun" ->
        {"June", "Junior"}
    [] k = "jul" ->
        {}
    [] k = "aug" ->
        {}
    [] k = "sep" ->
        {}
    [] k = "oct" ->
        {}
    [] k = "nov" ->
        {}
    [] k = "dec" ->
        {}
    [] k = "mba" ->
        {}
    [] k = "engineer" ->
        {"Engineering", "Engineer"}
    [] k = "developer" ->
        {"Developer", "Developers"}
    [] k = "scientist" ->
        {"Scientist"}
    [] k = "tech" ->
        {"Tech", "TechStart"}
    [] k = "solutions" ->
        {"Solutions"}
    [] k = "analytics" ->
        {"Analytics"}
    [] k = "innovations" ->
        {"Innovations"}
    [] k = "systems" ->
        {"Systems"}

\* the tokens whose small-letter form ends with k
EndsWith_body(k) ==
  CASE k = "degree" ->
        {}
    [] k = "bachelor" ->
        {"Bachelor"}
    [] k = "master" ->
        {"Master"}
    [] k = "ms" ->
        {"Systems"}
    [] k = "ma" ->
        {"Diploma"}
    [] k = "mba" ->
        {}
    [] k = "phd" ->
        {}
    [] k = "bs" ->
        {}
    [] k = "ba" ->
        {}
    [] k = "majoring" ->
        {}
    [] k = "majored" ->
        {}
    [] k = "studied" ->
        {}
    [] k = "study" ->
        {}
    [] k = "studies" ->
        {}
    [] k = "in" ->
        {"in"}
    [] k = "of" ->
        {"of"}
    [] k = "gpa" ->
        {"GPA"}
    [] k = "with" ->
        {"with"}
    [] k = "concentration" ->
        {"Concentration"}
    [] k = "specialization" ->
        {}
    [] k = "focus" ->
        {}
    [] k = "major" ->
        {}
    [] k = "track" ->
        {}
    [] k = "emphasis" ->
        {}
    [] k = "software" ->
        {"Software"}
    [] k = "junior" ->
        {"Junior"}
    [] k = "senior" ->
        {"Senior"}
    [] k = "web" ->
        {"Web"}
    [] k = "data" ->
        {"Data"}
    [] k = "lead" ->
        {}
    [] k = "machine" ->
        {}
    [] k = "devops" ->
        {}
    [] k = "abc" ->
        {"ABC"}
    [] k = "xyz" ->
        {"XYZ"}
    [] k = "datacorp" ->
        {"DataCorp"}
    [] k = "techstart" ->
        {"TechStart"}
    [] k = "insight" ->
        {"Insight"}
    [] k = "global" ->
        {"Global"}
    [] k = "digital" ->
        {"Digital"}
    [] k = "tech" ->
        {"Tech"}

\* the tokens that begin with k as written
StartsWithExact_body(k) ==
  CASE k = "Kit" ->
        {"Kit"}
    [] k = "Services" ->
        {"Services"}
    [] k = "Associate" ->
        {"Associate"}
    [] k = "Engineer" ->
        {"Engineering", "Engineer"}
    [] k = "Tech" ->
        {"Tech", "TechStart"}
    [] k = "2020" ->
        {"2020"}
    [] k = "Developer" ->
        {"Developer", "Developers"}
    [] k = "Solutions" ->
        {"Solutions"}
    [] k = "-" ->
        {"-", "--", "---", "----", "-----", "------"}
    [] k = "*" ->
        {"*", "**", "***"}
    [] k = "Present" ->
        {"Present"}
    [] k = "Current" ->
        {}
    [] k = "Ongoing" ->
        {}
    [] k = "Analytics" ->
        {"Analytics"}
    [] k = "Inc" ->
        {"Inc"}
    [] k = "LLC" ->
        {}
    [] k = "Ltd" ->
        {}
    [] k = "Systems" ->
        {"Systems"}
    [] k = "Corp" ->
        {}
    [] k = "Corporation" ->
        {}

\* the tokens that end with k as written
EndsWithExact_body(k) ==
  CASE k = "EDUCATION" ->
        {"EDUCATION"}
    [] k = "EXPERIENCE" ->
        {"EXPERIENCE"}
    [] k = "INTERNSHIP" ->
        {"INTERNSHIP"}
    [] k = "SKILLS" ->
        {"SKILLS"}
    [] k = "PROJECTS" ->
        {"PROJECTS"}
    [] k = "CERTIFICATIONS" ->
        {"CERTIFICATIONS"}
    [] k = "MongoDB" ->
        {"MongoDB"}
    [] k = "AWS" ->
        {"AWS"}
    [] k = "Amazon" ->
        {"Amazon"}
    [] k = "Programming" ->
        {"Programming"}
    [] k = "Databases" ->
        {"Databases"}
    [] k = "Tools" ->
        {"Tools"}
    [] k = "Web" ->
        {"Web"}
    [] k = "Soft" ->
        {"Soft"}
    [] k = "Languages" ->
        {"Languages"}
    [] k = "Development" ->
        {}
    [] k = "Skills" ->
        {"Skills"}
    [] k = "Technologies" ->
        {}
    [] k = "Software" ->
        {"Software"}
    [] k = "ABC" ->
        {"ABC"}
    [] k = "June" ->
        {"June"}
    [] k = "Junior" ->
        {"Junior"}
    [] k = "XYZ" ->
        {"XYZ"}

\* the part of token w that the keyword k matches in any case, for the
\* tokens that hold more than k
Found(w, k) ==
  CASE w = "Mitra" /\ k = "mit" -> "Mit"
    [] w = "Engineering" /\ k = "engineer" -> "Engineer"
    [] w = "Developers" /\ k = "developer" -> "Developer"
    [] OTHER -> w

\* the run of two or more capital letters that a token begins with
\* ([A-Z]{2,}), "" when it begins with none
CapsRun_body(w) ==
  CASE w = "EDUCATION" -> "EDUCATION"
    [] w = "EXPERIENCE" -> "EXPERIENCE"
    [] w = "SKILLS" -> "SKILLS"
    [] w = "PROJECTS" -> "PROJECTS"
    [] w = "CERTIFICATIONS" -> "CERTIFICATIONS"
    [] w = "INTERNSHIP" -> "INTERNSHIP"
    [] w = "GPA" -> "GPA"
    [] w = "MMM" -> "MMM"
    [] w = "ABC" -> "ABC"
    [] w = "CA" -> "CA"
    [] w = "AWS" -> "AWS"
    [] w = "XYZ" -> "XYZ"
    [] w = "NASA" -> "NASA"
    [] w = "QUALIFICATION" -> "QUALIFICATION"
    [] OTHER -> ""

\* the soft skill that the pattern of the soft skills finds in token w
\* (an ending ing or ed is not part of it), "" when it finds none
SoftSkillOf(w) ==
  CASE w = "Teamwork" -> "Teamwork"
    [] w = "Researched" -> "Research"
    [] OTHER -> ""

\* the code points of the characters of a token (ord of each)
CodePoints_body(w) ==
  CASE w = " " -> <<32>>
    [] w = "\n" -> <<10>>
    [] w = "\t" -> <<9>>
    [] w = "EDUCATION" -> <<69, 68, 85, 67, 65, 84, 73, 79, 78>>
    [] w = "EXPERIENCE" -> <<69, 88, 80, 69, 82, 73, 69, 78, 67, 69>>
    [] w = "SKILLS" -> <<83, 75, 73, 76, 76, 83>>
    [] w = "PROJECTS" -> <<80, 82, 79, 74, 69, 67, 84, 83>>
    [] w = "CERTIFICATIONS" ->
        <<67, 69, 82, 84, 73, 70, 73, 67, 65, 84, 73, 79, 78, 83>>
    [] w = "INTERNSHIP" -> <<73, 78, 84, 69, 82, 78, 83, 72, 73, 80>>
    [] w = "Bachelor" -> <<66, 97, 99, 104, 101, 108, 111, 114>>
    [] w = "of" -> <<111, 102>>
    [] w = "Science" -> <<83, 99, 105, 101, 110, 99, 101>>
    [] w = "in" -> <<105, 110>>
    [] w = "Computer" -> <<67, 111, 109, 112, 117, 116, 101, 114>>
    [] w = "New" -> <<78, 101, 119>>
    [] w = "York" -> <<89, 111, 114, 107>>
    [] w = "University" -> <<85, 110, 105, 118, 101, 114, 115, 105, 116, 121>>
    [] w = "Doe" -> <<68, 111, 101>>
    [] w = "GPA" -> <<71, 80, 65>>
    [] w = "3" -> <<51>>
    [] w = "8" -> <<56>>
    [] w = "2016" -> <<50, 48, 49, 54>>
    [] w = "2020" -> <<50, 48, 50, 48>>
    [] w = "Marathwada" -> <<77, 97, 114, 97, 116, 104, 119, 97, 100, 97>>
    [] w = "Diploma" -> <<68, 105, 112, 108, 111, 109, 97>>
    [] w = "Education" -> <<69, 100, 117, 99, 97, 116, 105, 111, 110>>
    [] w = "Engineering" ->
        <<69, 110, 103, 105, 110, 101, 101, 114, 105, 110, 103>>
    [] w = "Master" -> <<77, 97, 115, 116, 101, 114>>
    [] w = "Arts" -> <<65, 114, 116, 115>>
    [] w = "with" -> <<119, 105, 116, 104>>
    [] w = "Honors" -> <<72, 111, 110, 111, 114, 115>>
    [] w = "from" -> <<102, 114, 111, 109>>
    [] w = "the" -> <<116, 104, 101>>
    [] w = "at" -> <<97, 116>>
    [] w = "Concentration" ->
        <<67, 111, 110, 99, 101, 110, 116, 114, 97, 116, 105, 111,
          110>>
    [] w = "College" -> <<67, 111, 108, 108, 101, 103, 101>>
    [] w = "Mitra" -> <<77, 105, 116, 114, 97>>
    [] w = "Mandal" -> <<77, 97, 110, 100, 97, 108>>
    [] w = "MMM" -> <<77, 77, 77>>
    [] w = "Software" -> <<83, 111, 102, 116, 119, 97, 114, 101>>
    [] w = "Engineer" -> <<69, 110, 103, 105, 110, 101, 101, 114>>
    [] w = "ABC" -> <<65, 66, 67>>
    [] w = "Tech" -> <<84, 101, 99, 104>>
    [] w = "June" -> <<74, 117, 110, 101>>
    [] w = "Present" -> <<80, 114, 101, 115, 101, 110, 116>>
    [] w = "Intern" -> <<73, 110, 116, 101, 114, 110>>
    [] w = "Work" -> <<87, 111, 114, 107>>
    [] w = "work" -> <<119, 111, 114, 107>>
    [] w = "Developer" -> <<68, 101, 118, 101, 108, 111, 112, 101, 114>>
    [] w = "Experience" -> <<69, 120, 112, 101, 114, 105, 101, 110, 99, 101>>
    [] w = "Did" -> <<68, 105, 100>>
    [] w = "X" -> <<88>>
    [] w = "Y" -> <<89>>
    [] w = "San" -> <<83, 97, 110>>
    [] w = "Francisco" -> <<70, 114, 97, 110, 99, 105, 115, 99, 111>>
    [] w = "CA" -> <<67, 65>>
    [] w = "AWS" -> <<65, 87, 83>>
    [] w = "Certified" -> <<67, 101, 114, 116, 105, 102, 105, 101, 100>>
    [] w = "Associate" -> <<65, 115, 115, 111, 99, 105, 97, 116, 101>>
    [] w = "Amazon" -> <<65, 109, 97, 122, 111, 110>>
    [] w = "Web" -> <<87, 101, 98>>
    [] w = "Services" -> <<83, 101, 114, 118, 105, 99, 101, 115>>
    [] w = "2021" -> <<50, 48, 50, 49>>
    [] w = "MongoDB" -> <<77, 111, 110, 103, 111, 68, 66>>
    [] w = "GeeksforGeeks" ->
        <<71, 101, 101, 107, 115, 102, 111, 114, 71, 101, 101, 107,
          115>>
    [] w = "Developers" -> <<68, 101, 118, 101, 108, 111, 112, 101, 114, 115>>
    [] w = "Tool" -> <<84, 111, 111, 108>>
    [] w = "Kit" -> <<75, 105, 116>>
    [] w = "2024" -> <<50, 48, 50, 52>>
    [] w = "certification" ->
        <<99, 101, 114, 116, 105, 102, 105, 99, 97, 116, 105, 111,
          110>>
    [] w = "Certificate" ->
        <<67, 101, 114, 116, 105, 102, 105, 99, 97, 116, 101>>
    [] w = "license" -> <<108, 105, 99, 101, 110, 115, 101>>
    [] w = "Programming" ->
        <<80, 114, 111, 103, 114, 97, 109, 109, 105, 110, 103>>
    [] w = "Languages" -> <<76, 97, 110, 103, 117, 97, 103, 101, 115>>
    [] w = "Python" -> <<80, 121, 116, 104, 111, 110>>
    [] w = "Java" -> <<74, 97, 118, 97>>
    [] w = "Databases" -> <<68, 97, 116, 97, 98, 97, 115, 101, 115>>
    [] w = "Tools" -> <<84, 111, 111, 108, 115>>
    [] w = "Git" -> <<71, 105, 116>>
    [] w = "Soft" -> <<83, 111, 102, 116>>
    [] w = "Skills" -> <<83, 107, 105, 108, 108, 115>>
    [] w = "Personal" -> <<80, 101, 114, 115, 111, 110, 97, 108>>
    [] w = "Website" -> <<87, 101, 98, 115, 105, 116, 101>>
    [] w = "Junior" -> <<74, 117, 110, 105, 111, 114>>
    [] w = "Senior" -> <<83, 101, 110, 105, 111, 114>>
    [] w = "XYZ" -> <<88, 89, 90>>
    [] w = "Solutions" -> <<83, 111, 108, 117, 116, 105, 111, 110, 115>>
    [] w = "Inc" -> <<73, 110, 99>>
    [] w = "Jenkins" -> <<74, 101, 110, 107, 105, 110, 115>>
    [] w = "06" -> <<48, 54>>
    [] w = "lorem" -> <<108, 111, 114, 101, 109>>
    [] w = "ipsum" -> <<105, 112, 115, 117, 109>>
    [] w = "dolor" -> <<100, 111, 108, 111, 114>>
    [] w = "John" -> <<74, 111, 104, 110>>
    [] w = "Summary" -> <<83, 117, 109, 109, 97, 114, 121>>
    [] w = "NASA" -> <<78, 65, 83, 65>>
    [] w = "QUALIFICATION" ->
        <<81, 85, 65, 76, 73, 70, 73, 67, 65, 84, 73, 79, 78>>
    [] w = "Profile" -> <<80, 114, 111, 102, 105, 108, 101>>
    [] w = "python" -> <<112, 121, 116, 104, 111, 110>>
    [] w = "Teamwork" -> <<84, 101, 97, 109, 119, 111, 114, 107>>
    [] w = "Researched" -> <<82, 101, 115, 101, 97, 114, 99, 104, 101, 100>>
    [] w = "DataCorp" -> <<68, 97, 116, 97, 67, 111, 114, 112>>
    [] w = "Analytics" -> <<65, 110, 97, 108, 121, 116, 105, 99, 115>>
    [] w = "TechStart" -> <<84, 101, 99, 104, 83, 116, 97, 114, 116>>
    [] w = "Insight" -> <<73, 110, 115, 105, 103, 104, 116>>
    [] w = "Data" -> <<68, 97, 116, 97>>
    [] w = "Systems" -> <<83, 121, 115, 116, 101, 109, 115>>
    [] w = "Innovations" ->
        <<73, 110, 110, 111, 118, 97, 116, 105, 111, 110, 115>>
    [] w = "Global" -> <<71, 108, 111, 98, 97, 108>>
    [] w = "Digital" -> <<68, 105, 103, 105, 116, 97, 108>>
    [] w = "Scientist" -> <<83, 99, 105, 101, 110, 116, 105, 115, 116>>
    [] w = "1" -> <<49>>
    [] w = "," -> <<44>>
    [] w = ":" -> <<58>>
    [] w = "-" -> <<45>>
    [] w = "--" -> <<45, 45>>
    [] w = "---" -> <<45, 45, 45>>
    [] w = "----" -> <<45, 45, 45, 45>>
    [] w = "-----" -> <<45, 45, 45, 45, 45>>
    [] w = "------" -> <<45, 45, 45, 45, 45, 45>>
    [] w = "*" -> <<42>>
    [] w = "**" -> <<42, 42>>
    [] w = "***" -> <<42, 42, 42>>
    [] w = "." -> <<46>>
    [] w = "|" -> <<124>>
    [] w = ";" -> <<59>>
    [] w = "/" -> <<47>>
    [] w = "&" -> <<38>>
    [] w = "'" -> <<39>>
    [] w = "%" -> <<37>>
    [] w = "=" -> <<61>>
    [] w = "+" -> <<43>>
    [] w = "[" -> <<91>>
    [] w = "]" -> <<93>>
    [] w = "loremipsumdolorsitametconsecteturadipiscingelitseddoeiusmodtemporincididuntutlaboreetdoloremagnaaliquautenimadminimveniamquisnostrudexercitationullamcolaborisnisiutaliquipexeacommodoconsequatduisauteiruredolorinrepre" ->
        <<108, 111, 114, 101, 109, 105, 112, 115, 117, 109, 100, 111,
          108, 111, 114, 115, 105, 116, 97, 109, 101, 116, 99, 111,
          110, 115, 101, 99, 116, 101, 116, 117, 114, 97, 100, 105,
          112, 105, 115, 99, 105, 110, 103, 101, 108, 105, 116, 115,
          101, 100, 100, 111, 101, 105, 117, 115, 109, 111, 100, 116,
          101, 109, 112, 111, 114, 105, 110, 99, 105, 100, 105, 100,
          117, 110, 116, 117, 116, 108, 97, 98, 111, 114, 101, 101,
          116, 100, 111, 108, 111, 114, 101, 109, 97, 103, 110, 97,
          97, 108, 105, 113, 117, 97, 117, 116, 101, 110, 105, 109,
          97, 100, 109, 105, 110, 105, 109, 118, 101, 110, 105, 97,
          109, 113, 117, 105, 115, 110, 111, 115, 116, 114, 117, 100,
          101, 120, 101, 114, 99, 105, 116, 97, 116, 105, 111, 110,
          117, 108, 108, 97, 109, 99, 111, 108, 97, 98, 111, 114, 105,
          115, 110, 105, 115, 105, 117, 116, 97, 108, 105, 113, 117,
          105, 112, 101, 120, 101, 97, 99, 111, 109, 109, 111, 100,
          111, 99, 111, 110, 115, 101, 113, 117, 97, 116, 100, 117,
          105, 115, 97, 117, 116, 101, 105, 114, 117, 114, 101, 100,
          111, 108, 111, 114, 105, 110, 114, 101, 112, 114, 101>>
    [] w = "@" -> <<8226>>
    [] w = "~" -> <<8212>>
    [] w = "Research" -> <<82, 101, 115, 101, 97, 114, 99, 104>>

\* the characters of a token after its first one, for the tokens made of
\* - or *
RestOf_body(w) ==
  CASE w = "-" -> ""
    [] w = "--" -> "-"
    [] w = "---" -> "--"
    [] w = "----" -> "---"
    [] w = "-----" -> "----"
    [] w = "------" -> "-----"
    [] w = "*" -> ""
    [] w = "**" -> "*"
    [] w = "***" -> "**"

\* ---- end of character data ----

\* tokens that hold no cased character (punctuation, digits, whitespace)
UncasedWords == WS \cup PunctWords \cup IntWords

\* a long run of small letters: 216 characters in a single token
Filler ==
  "loremipsumdolorsitametconsecteturadipiscingelitseddoeiusmodtemporincididuntutlaboreetdoloremagnaaliquautenimadminimveniamquisnostrudexercitationullamcolaborisnisiutaliquipexeacommodoconsequatduisauteiruredolorinrepre"

(***************************************************************************)
(* Python string primitives on token sequences.                            *)
(***************************************************************************)
RECURSIVE StrLen(_)
\* len(s): the number of characters
StrLen(s) == IF s = <<>> THEN 0 ELSE Len(Head(s)) + StrLen(Tail(s))

RECURSIVE LStrip(_)
LStrip(s) == IF s # <<>> /\ Head(s) \in WS THEN LStrip(Tail(s)) ELSE s

RECURSIVE RStrip(_)
RStrip(s) ==
  IF s # <<>> /\ s[Len(s)] \in WS THEN RStrip(SubSeq(s, 1, Len(s) - 1)) ELSE s

\* s.strip()
Strip(s) == RStrip(LStrip(s))

\* index of the first token of s equal to t at or after index i, else 0
RECURSIVE IndexFrom(_, _, _)
IndexFrom(s, t, i) ==
  IF i > Len(s) THEN 0 ELSE IF s[i] = t THEN i ELSE IndexFrom(s, t, i + 1)

\* s.split('\n'): the lines of s, without their newline
RECURSIVE SplitLines(_)
SplitLines(s) ==
  LET k == IndexFrom(s, NL, 1) IN
    IF k = 0 THEN <<s>>
    ELSE <<SubSeq(s, 1, k - 1)>> \o SplitLines(SubSeq(s, k + 1, Len(s)))

\* '\n'.join(ls)
RECURSIVE JoinLines(_)
JoinLines(ls) ==
  IF ls = <<>> THEN <<>>
  ELSE IF Len(ls) = 1 THEN ls[1]
  ELSE ls[1] \o <<NL>> \o JoinLines(Tail(ls))

\* the token index at which character offset p starts (Len(s) + 1 past the end)
RECURSIVE TokenAt(_, _, _)
TokenAt(s, p, i) ==
  IF i > Len(s) \/ p <= 0 THEN i ELSE TokenAt(s, p - Len(s[i]), i + 1)

\* s[a:b] for character offsets a <= b
Slice(s, a, b) == SubSeq(s, TokenAt(s, a, 1), TokenAt(s, b, 1) - 1)

\* x in s for a phrase x: x occurs in s as a run of consecutive tokens
Contains(s, x) ==
  \E i \in 1..(Len(s) - Len(x) + 1) : SubSeq(s, i, i + Len(x) - 1) = x

\* s.lower()
Lower(s) == [i \in 1..Len(s) |-> LowerWord(s[i])]

\* the tokens of s that are not whitespace
RECURSIVE Words(_)
Words(s) ==
  IF s = <<>> THEN <<>>
  ELSE IF Head(s) \in WS THEN Words(Tail(s))
  ELSE <<Head(s)>> \o Words(Tail(s))

(***************************************************************************)
(* utils/text_preprocessing.py                                             *)
(***************************************************************************)
\* re.sub(r'\s+', ' ', text): every run of whitespace becomes one space
RECURSIVE CollapseWhitespace(_)
CollapseWhitespace(s) ==
  IF s = <<>> THEN <<>>
  ELSE IF Head(s) \in WS THEN <<SP>> \o CollapseWhitespace(LStrip(s))
  ELSE <<Head(s)>> \o CollapseWhitespace(Tail(s))

\* clean_text that keeps the whitespace inside the text
StripOnly(t) == Strip(t)

clean_text_body(t) == Strip(CollapseWhitespace(t))

\* re.sub(c+, c, text): every run of the whitespace character c becomes one c
RECURSIVE CollapseRuns(_, _)
CollapseRuns(s, c) ==
  IF s = <<>> THEN <<>>
  ELSE IF Head(s) = c /\ Len(s) > 1 /\ s[2] = c THEN CollapseRuns(Tail(s), c)
  ELSE <<Head(s)>> \o CollapseRuns(Tail(s), c)

\* re.sub(r'\t', ' ', text)
TabsToSpaces(s) == [i \in 1..Len(s) |-> IF s[i] = TAB THEN SP ELSE s[i]]

normalize_whitespace_body(t) ==
  Strip(TabsToSpaces(CollapseRuns(CollapseRuns(t, NL), SP)))

(***************************************************************************)
(* extractors/section_extractor.py                                         *)
(***************************************************************************)
\* Python's None, for an optional name or text
None == "None"

\* the keys of SECTION_TITLES in the order the dict is written
SectionOrder ==
  <<"header", "profile", "experience", "education", "skills",
    "certifications", "projects", "publications", "awards", "languages",
    "interests", "references", "volunteer">>

\* SECTION_TITLES[n]: the phrases the patterns of section n accept, each as
\* its words in small letters (the patterns are anchored, case-insensitive
\* and allow any whitespace between the words)
SECTION_TITLES_body(n) ==
  CASE
  n = "header" ->
    {
        <<"name">>, <<"personal", "information">>, <<"contact">>,
        <<"contact", "information">>, <<"profile">>, <<"summary">>,
        <<"professional", "summary">>, <<"executive", "summary">>,
        <<"career", "summary">>}
  []  n = "profile" ->
    {
        <<"profile">>, <<"summary">>, <<"about", "me">>,
        <<"professional", "summary">>, <<"executive", "summary">>,
        <<"career", "summary">>, <<"career", "objective">>, <<"objective">>,
        <<"career", "goal">>, <<"professional", "profile">>}
  []  n = "experience" ->
    {
        <<"experience">>, <<"work", "experience">>,
        <<"professional", "experience">>, <<"employment">>,
        <<"employment", "history">>, <<"work", "history">>, <<"career">>,
        <<"career", "history">>, <<"professional", "background">>,
        <<"relevant", "experience">>, <<"professional", "history">>,
        <<"internship">>, <<"internships">>, <<"intern", "experience">>}
  []  n = "education" ->
    {
        <<"education">>, <<"educational">>, <<"education", "background">>,
        <<"educational", "background">>, <<"education", "and", "training">>,
        <<"educational", "and", "training">>, <<"academic">>, <<"academics">>,
        <<"academic", "background">>, <<"qualifications">>,
        <<"educational", "qualifications">>, <<"schooling">>, <<"degree">>,
        <<"degrees">>, <<"academic", "degree">>, <<"academic", "degrees">>}
  []  n = "skills" ->
    {
        <<"skills">>, <<"technical", "skills">>, <<"competency">>,
        <<"competencies">>, <<"core", "competency">>,
        <<"core", "competencies">>, <<"areas", "of", "expertise">>,
        <<"expertise">>, <<"languages", "skills">>, <<"computer", "skills">>,
        <<"professional", "skills">>, <<"specialized", "skills">>,
        <<"specific", "skills">>, <<"special", "skills">>, <<"skill", "set">>,
        <<"skill", "summary">>, <<"technical", "expertise">>,
        <<"technical", "proficiencies">>, <<"technologies">>, <<"tools">>,
        <<"software">>, <<"programming", "languages">>, <<"languages">>,
        <<"frameworks">>, <<"platforms">>}
  []  n = "certifications" ->
    {
        <<"certification">>, <<"certifications">>,
        <<"professional", "certification">>,
        <<"professional", "certifications">>, <<"accreditation">>,
        <<"accreditations">>, <<"credential">>, <<"credentials">>,
        <<"license">>, <<"licenses">>, <<"professional", "license">>,
        <<"professional", "licenses">>, <<"technical", "certification">>,
        <<"technical", "certifications">>}
  []  n = "projects" ->
    {
        <<"project">>, <<"projects">>, <<"personal", "project">>,
        <<"personal", "projects">>, <<"academic", "project">>,
        <<"academic", "projects">>, <<"key", "project">>, <<"key", "projects">>,
        <<"portfolio">>, <<"work", "samples">>, <<"relevant", "projects">>,
        <<"professional", "project">>, <<"professional", "projects">>}
  []  n = "publications" ->
    {
        <<"publication">>, <<"publications">>, <<"research">>,
        <<"research", "publication">>, <<"research", "publications">>,
        <<"papers">>, <<"articles">>, <<"conference", "papers">>,
        <<"conference", "presentations">>, <<"journal">>, <<"journals">>,
        <<"published", "work">>, <<"published", "works">>,
        <<"scholarly", "work">>, <<"scholarly", "works">>,
        <<"academic", "publication">>, <<"academic", "publications">>,
        <<"academic", "papers">>}
  []  n = "awards" ->
    {
        <<"award">>, <<"awards">>, <<"honor">>, <<"honors">>, <<"recognition">>,
        <<"recognitions">>, <<"achievement">>, <<"achievements">>,
        <<"accomplishment">>, <<"accomplishments">>, <<"prize">>, <<"prizes">>,
        <<"scholarship">>, <<"scholarships">>, <<"fellowship">>,
        <<"fellowships">>, <<"grant">>, <<"grants">>, <<"academic", "honor">>,
        <<"academic", "honors">>}
  []  n = "languages" ->
    {
        <<"language">>, <<"languages">>, <<"language", "skill">>,
        <<"language", "skills">>, <<"language", "proficiency">>,
        <<"linguistic", "proficiency">>, <<"foreign", "language">>,
        <<"foreign", "languages">>, <<"spoken", "language">>,
        <<"spoken", "languages">>, <<"language", "fluency">>}
  []  n = "interests" ->
    {
        <<"interest">>, <<"interests">>, <<"hobbie">>, <<"hobbies">>,
        <<"activities">>, <<"personal", "interest">>,
        <<"personal", "interests">>, <<"other", "interest">>,
        <<"other", "interests">>, <<"extracurricular", "activities">>,
        <<"personal", "activities">>, <<"leisure", "activities">>}
  []  n = "references" ->
    {
        <<"reference">>, <<"references">>, <<"professional", "reference">>,
        <<"professional", "references">>, <<"character", "reference">>,
        <<"character", "references">>, <<"recommendation">>,
        <<"recommendations">>, <<"endorsement">>, <<"endorsements">>,
        <<"referee">>, <<"referees">>}
  []  n = "volunteer" ->
    {
        <<"volunteer">>, <<"volunteer", "experience">>,
        <<"community", "service">>, <<"community", "involvement">>,
        <<"social", "work">>, <<"civic", "activities">>, <<"philanthropy">>,
        <<"voluntary", "work">>}

\* uppercase_patterns, in dict order: ^\s*EXPERIENCE\s*$ and so on
UppercaseOrder ==
  <<"experience", "education", "skills", "projects", "certifications">>

UppercaseWord(n) ==
  CASE n = "experience" -> "EXPERIENCE"
    [] n = "education" -> "EDUCATION"
    [] n = "skills" -> "SKILLS"
    [] n = "projects" -> "PROJECTS"
    [] n = "certifications" -> "CERTIFICATIONS"

\* SECTION_SEPARATORS matched against a stripped line
IsSeparator_body(line) ==
  \/ /\ \A i \in 1..Len(line) : line[i] \in DashRuns \cup WS
     /\ StrLen(line) >= 3
  \/ /\ \A i \in 1..Len(line) : line[i] \in StarRuns
     /\ StrLen(line) >= 3
  \/ /\ Len(line) >= 3
     /\ line[1] \in DashRuns /\ Len(line[1]) >= 2
     /\ line[Len(line)] \in DashRuns /\ Len(line[Len(line)]) >= 2
     /\ \A i \in 2..(Len(line) - 1) : line[i] \notin PunctWords

\* the words of a line after lower() and after deleting the characters
\* [:\-_=*#...]: words that the deletion joins become one word
RECURSIVE TitleKey(_, _, _)
TitleKey(s, acc, cur) ==
  IF s = <<>> THEN (IF cur = "" THEN acc ELSE Append(acc, cur))
  ELSE IF Head(s) \in WS
    THEN TitleKey(Tail(s), IF cur = "" THEN acc ELSE Append(acc, cur), "")
  ELSE IF Head(s) \in FormatWords THEN TitleKey(Tail(s), acc, cur)
  ELSE TitleKey(Tail(s), acc, cur \o LowerWord(Head(s)))

\* str.isupper and str.istitle of a list of words
IsUpper(ws) ==
  /\ \E i \in 1..Len(ws) : ws[i] \notin UncasedWords
  /\ \A i \in 1..Len(ws) : ws[i] \in UpperWords \cup UncasedWords

IsTitle(ws) ==
  /\ \E i \in 1..Len(ws) : ws[i] \notin UncasedWords
  /\ \A i \in 1..Len(ws) : ws[i] \in TitleWords \cup UncasedWords

\* the number of characters of words joined by single spaces
RECURSIVE JoinedLen(_)
JoinedLen(ws) ==
  IF ws = <<>> THEN 0
  ELSE Len(Head(ws)) + (IF Len(ws) > 1 THEN 1 ELSE 0) + JoinedLen(Tail(ws))

\* the last section, in table order from index k, one of whose title
\* patterns matches the cleaned line
LastTitleMatch(key, k) ==
  LET M == {j \in k..Len(SectionOrder) : key \in SECTION_TITLES(SectionOrder[j])}
  IN IF M = {} THEN None
     ELSE SectionOrder[CHOOSE j \in M : \A i \in M : i <= j]

\* the first section, in table order from index k, one of whose title
\* patterns matches the cleaned line
RECURSIVE FirstTitleMatch(_, _)
FirstTitleMatch(key, k) ==
  IF k > Len(SectionOrder) THEN None
  ELSE IF key \in SECTION_TITLES(SectionOrder[k]) THEN SectionOrder[k]
  ELSE FirstTitleMatch(key, k + 1)

\* \b(A|B|..)\b found in the line as written
HasWord(line, kws) == \E i \in 1..Len(line) : line[i] \in kws

\* _identify_section_title(line)
identify_section_title_body(line) ==
  LET clean_line == TitleKey(Strip(line), <<>>, "")
      exact == FirstTitleMatch(clean_line, 1)
  IN IF exact # None THEN exact
     ELSE IF (IsUpper(clean_line) \/ IsTitle(clean_line))
             /\ JoinedLen(clean_line) < 30
       THEN IF HasWord(line, {"EXPERIENCE", "WORK", "EMPLOYMENT", "PROFESSIONAL"})
              THEN "experience"
            ELSE IF HasWord(line, {"EDUCATION", "ACADEMIC", "QUALIFICATION", "DEGREE"})
              THEN "education"
            ELSE IF HasWord(line, {"SKILL", "COMPETENC", "EXPERTISE", "PROFICIENC"})
              THEN "skills"
            ELSE IF HasWord(line, {"CERTIFICATE", "CERTIFICATION", "LICENSE", "CREDENTIAL"})
              THEN "certifications"
            ELSE IF HasWord(line, {"PROJECT", "PORTFOLIO"})
                    \/ Contains(line, <<"CASE", SP, "STUD">>)
              THEN "projects"
            ELSE IF HasWord(line, {"LANGUAGE"})
                    /\ ~HasWord(line, {"PROGRAMMING", "COMPUTER"})
              THEN "languages"
            ELSE None
     ELSE None

\* a section boundary: (section_name, start_pos)
Boundary(n, p) == [name |-> n, pos |-> p]

\* the first of uppercase_patterns that matches the stripped line
RECURSIVE UppercaseMatch(_, _)
UppercaseMatch(line_clean, k) ==
  IF k > Len(UppercaseOrder) THEN None
  ELSE IF line_clean = <<UppercaseWord(UppercaseOrder[k])>> THEN UppercaseOrder[k]
  ELSE UppercaseMatch(line_clean, k + 1)

\* the character offset below which the first heading claims a header section
HeaderLimit == 200

\* the boundary list after a heading was found at offset pos: the header
\* section is inserted in front once, near the beginning of the resume
WithHeader(bounds, header_found, pos) ==
  IF ~header_found /\ pos < HeaderLimit
     /\ (bounds = <<>> \/ bounds[1].name # "header")
  THEN <<Boundary("header", 0)>> \o bounds
  ELSE bounds

HeaderFound(bounds, header_found, pos) ==
  \/ header_found
  \/ /\ pos < HeaderLimit
     /\ (bounds = <<>> \/ bounds[1].name # "header")

\* the loop of _identify_section_boundaries over lines[i..]
BoundaryScan_body(lines, i, current_position, bounds, header_found) ==
  IF i > Len(lines) THEN bounds
  ELSE
    LET line == lines[i]
        line_clean == Strip(line)
        next_position == current_position + StrLen(line) + 1
    IN IF line_clean = <<>> \/ StrLen(line_clean) < 2
       THEN BoundaryScan(lines, i + 1, next_position, bounds, header_found)
       ELSE
         LET sep_name == IF IsSeparator(line_clean) /\ i < Len(lines)
                         THEN identify_section_title(Strip(lines[i + 1]))
                         ELSE None
             b1 == IF sep_name # None
                   THEN Append(bounds, Boundary(sep_name, current_position))
                   ELSE bounds
             uppercase_section == UppercaseMatch(line_clean, 1)
             section_name == IF uppercase_section # None THEN uppercase_section
                             ELSE identify_section_title(line_clean)
         IN IF section_name # None
            THEN BoundaryScan(lines, i + 1, next_position,
                   Append(WithHeader(b1, header_found, current_position),
                          Boundary(section_name, current_position)),
                   HeaderFound(b1, header_found, current_position))
            ELSE BoundaryScan(lines, i + 1, next_position, b1, header_found)

HasBoundary(bounds, n) == \E k \in 1..Len(bounds) : bounds[k].name = n

\* the loop of _fallback_section_identification over lines[i..]
FallbackScan_body(lines, i, current_position, bounds) ==
  IF i > Len(lines) THEN bounds
  ELSE
    LET line_clean == Lower(Strip(lines[i]))
        found ==
          IF HasWord(line_clean, {"degree", "university", "college", "school",
                                  "gpa", "bachelor", "master", "phd", "diploma"})
             /\ ~HasBoundary(bounds, "education") THEN "education"
          ELSE IF HasWord(line_clean, {"experience", "work", "job", "position",
                                       "employer", "company", "responsibilities"})
             /\ ~HasBoundary(bounds, "experience") THEN "experience"
          ELSE IF HasWord(line_clean, {"skills", "proficient", "expertise",
                                       "competenc", "abilities"})
             /\ ~HasBoundary(bounds, "skills") THEN "skills"
          ELSE IF HasWord(line_clean, {"certification", "certified", "license",
                                       "accredit", "credential"})
             /\ ~HasBoundary(bounds, "certifications") THEN "certifications"
          ELSE None
    IN FallbackScan(lines, i + 1, current_position + StrLen(lines[i]) + 1,
         IF found # None THEN Append(bounds, Boundary(found, current_position))
         ELSE bounds)

\* _identify_section_boundaries without the heuristics of the fallback
NoFallback(text, lines) == <<>>

\* _fallback_section_identification that assumes an education section, not a
\* header, at the beginning
FallbackFromEducation(text, lines) ==
  FallbackScan(lines, 1, 0, <<Boundary("education", 0)>>)

\* _fallback_section_identification(text, lines)
fallback_section_identification(text, lines) ==
  FallbackScan(lines, 1, 0, <<Boundary("header", 0)>>)

\* _identify_section_boundaries(text)
identify_section_boundaries_body(text) ==
  LET lines == SplitLines(text)
      section_boundaries == BoundaryScan(lines, 1, 0, <<>>, FALSE)
  IN IF section_boundaries = <<>> /\ Strip(text) # <<>>
     THEN fallback_section_identification(text, lines)
     ELSE section_boundaries

\* _clean_section_title(section_text, section_name)
clean_section_title_body(section_text, section_name) ==
  LET lines == SplitLines(section_text) IN
    IF identify_section_title(lines[1]) = section_name
      THEN Strip(JoinLines(Tail(lines)))
    ELSE IF Len(lines) > 1 /\ identify_section_title(lines[2]) = section_name
      THEN Strip(JoinLines(Tail(Tail(lines))))
    ELSE section_text

(***************************************************************************)
(* A dict of section texts, in insertion order: a sequence of              *)
(* [name, text] items with distinct names.                                 *)
(***************************************************************************)
Keys(d) == [k \in 1..Len(d) |-> d[k].name]

HasKey(d, n) == \E k \in 1..Len(d) : d[k].name = n

\* d.get(n, "")
Get(d, n) ==
  IF HasKey(d, n) THEN d[CHOOSE k \in 1..Len(d) : d[k].name = n].text ELSE <<>>

\* d[n] = t
Put_body(d, n, t) ==
  IF HasKey(d, n)
  THEN [k \in 1..Len(d) |-> IF d[k].name = n THEN [name |-> n, text |-> t] ELSE d[k]]
  ELSE Append(d, [name |-> n, text |-> t])

\* the loop of extract_sections over section_boundaries[i..]
\* the loop of extract_sections that puts a later slice of a section in front
\* of the text it already has
SliceSectionsNewestFirst(text, bounds, i, sections) ==
  IF i > Len(bounds) THEN sections
  ELSE
    LET section_name == bounds[i].name
        end_pos == IF i < Len(bounds) THEN bounds[i + 1].pos ELSE StrLen(text)
        section_text == Strip(Slice(text, bounds[i].pos, end_pos))
        cleaned == clean_section_title(section_text, section_name)
    IN SliceSections(text, bounds, i + 1,
         IF section_text = <<>> THEN sections
         ELSE IF HasKey(sections, section_name)
           THEN Put(sections, section_name,
                    cleaned \o <<NL, NL>> \o Get(sections, section_name))
         ELSE Put(sections, section_name, cleaned))

SliceSections_body(text, bounds, i, sections) ==
  IF i > Len(bounds) THEN sections
  ELSE
    LET section_name == bounds[i].name
        end_pos == IF i < Len(bounds) THEN bounds[i + 1].pos ELSE StrLen(text)
        section_text == Strip(Slice(text, bounds[i].pos, end_pos))
        cleaned == clean_section_title(section_text, section_name)
    IN SliceSections(text, bounds, i + 1,
         IF section_text = <<>> THEN sections
         ELSE IF HasKey(sections, section_name)
           THEN Put(sections, section_name,
                    Get(sections, section_name) \o <<NL, NL>> \o cleaned)
         ELSE Put(sections, section_name, cleaned))

\* tokens that begin, in any case, with certification, certified, credential,
\* license or accredit
CertPrefixWords ==
  StartsWith("certification") \cup StartsWith("certified")
    \cup StartsWith("credential") \cup StartsWith("license")
    \cup StartsWith("accredit")

\* re.search(r'(?i)(\n|^)\s*(certification|certified|credential|license|accredit)', t):
\* the token index at which the leftmost match starts, 0 when there is none
CertMatchStart_body(t) ==
  LET starts == {i \in 1..Len(t) :
                   /\ i = 1 \/ t[i] = NL
                   /\ \E j \in i..Len(t) :
                        /\ t[j] \in CertPrefixWords
                        /\ \A k \in i..(j - 1) : t[k] \in WS}
  IN IF starts = {} THEN 0 ELSE CHOOSE i \in starts : \A j \in starts : i <= j

\* the loop of _post_process_sections over the items of sections
PostProcessScan_body(sections, i, processed_sections) ==
  IF i > Len(sections) THEN processed_sections
  ELSE
    LET section_name == sections[i].name
        section_text == sections[i].text
        split_pos == CertMatchStart(section_text)
    IN IF section_name = "education" /\ ~HasKey(sections, "certifications")
          /\ split_pos # 0
       THEN PostProcessScan(sections, i + 1,
              Put(Put(processed_sections, "education",
                      Strip(SubSeq(section_text, 1, split_pos - 1))),
                  "certifications",
                  Strip(SubSeq(section_text, split_pos, Len(section_text)))))
       ELSE PostProcessScan(sections, i + 1,
              Put(processed_sections, section_name, section_text))

\* extract_sections without the split of the education section
SectionsAsSliced(sections) == sections

\* _post_process_sections(sections)
post_process_sections(sections) == PostProcessScan(sections, 1, <<>>)

\* extract_sections(text)
\* extract_sections without the section "unknown" of a text that has no
\* boundary
NoUnknownSection(text) ==
  LET section_boundaries == identify_section_boundaries(text) IN
    IF section_boundaries = <<>>
    THEN <<>>
    ELSE post_process_sections(SliceSections(text, section_boundaries, 1, <<>>))

extract_sections_body(text) ==
  LET section_boundaries == identify_section_boundaries(text) IN
    IF section_boundaries = <<>>
    THEN <<[name |-> "unknown", text |-> Strip(text)]>>
    ELSE post_process_sections(SliceSections(text, section_boundaries, 1, <<>>))


(***************************************************************************)
(* Pattern matching of the entry extractors, on tokens.  A character class *)
(* of a pattern is a set of tokens: \s is WS, a run of \w is one token     *)
(* outside WS and PunctWords, a run of letters is a token that also holds  *)
(* no digit.                                                               *)
(***************************************************************************)
\* Python's None for an optional text
NoText == <<None>>

\* bool(t) of an optional text
Truthy(t) == t # NoText /\ t # <<>>

\* the characters of (?:\s|$|,|\.), which end a keyword
Term == WS \cup {",", "."}

\* the characters of (?:,|\.|$|\n), which end a captured phrase
PhraseEnd == {",", ".", NL}

\* a token of letters only, [A-Za-z]+
IsAlpha(w) == w \notin WS \cup PunctWords \cup NumberWords

\* a token of word characters, \w+
IsWordTok(w) == w \notin WS \cup PunctWords

\* the words ws joined by single spaces
RECURSIVE Ph(_)
Ph(ws) == IF Len(ws) <= 1 THEN ws ELSE <<ws[1], SP>> \o Ph(Tail(ws))

\* the smallest member of a non-empty set of numbers, 0 for the empty set
Least(S) == IF S = {} THEN 0 ELSE CHOOSE i \in S : \A j \in S : i <= j

\* the largest member of a non-empty set of numbers, 0 for the empty set
Greatest(S) == IF S = {} THEN 0 ELSE CHOOSE i \in S : \A j \in S : i >= j

\* (?:^|\s) before token j
LeftOK(s, j) == j = 1 \/ (j > 1 /\ j <= Len(s) + 1 /\ s[j - 1] \in WS)

\* (?:\s|$|,|\.) at token k
RightOK(s, k) == k > Len(s) \/ s[k] \in Term

\* the phrase p, written in small letters, stands at token j in any case
PhraseAt(s, j, p) ==
  /\ j >= 1
  /\ j + Len(p) - 1 <= Len(s)
  /\ Lower(SubSeq(s, j, j + Len(p) - 1)) = p

\* (?i)(?:^|\s)(p)(?:\s|$|,|\.) with its group at token j
KeywordAt(s, j, p) ==
  LeftOK(s, j) /\ PhraseAt(s, j, p) /\ RightOK(s, j + Len(p))

\* some keyword of the set kws of phrases stands somewhere in s
HasKeyword(s, kws) == \E j \in 1..Len(s) : \E p \in kws : KeywordAt(s, j, p)

\* the first token at or after i that is not whitespace (Len(s) + 1 if none)
SkipWS_body(s, i) ==
  Least({e \in i..(Len(s) + 1) :
           /\ \A k \in i..(e - 1) : s[k] \in WS
           /\ e = Len(s) + 1 \/ s[e] \notin WS})

\* the end (exclusive) of the longest run of letters and whitespace from c
AlphaRunEnd_body(s, c) ==
  Least({e \in c..(Len(s) + 1) :
           /\ \A k \in c..(e - 1) : IsAlpha(s[k]) \/ s[k] \in WS
           /\ e = Len(s) + 1 \/ ~(IsAlpha(s[e]) \/ s[e] \in WS)})

\* the end (exclusive) of the longest run of [\w\s] from c
WordRunEnd_body(s, c) ==
  Least({e \in c..(Len(s) + 1) :
           /\ \A k \in c..(e - 1) : IsWordTok(s[k]) \/ s[k] \in WS
           /\ e = Len(s) + 1 \/ ~(IsWordTok(s[e]) \/ s[e] \in WS)})

\* re.split on the single characters seps
RECURSIVE SplitOn(_, _)
SplitOn(s, seps) ==
  LET k == Least({i \in 1..Len(s) : s[i] \in seps}) IN
    IF k = 0 THEN <<s>>
    ELSE <<SubSeq(s, 1, k - 1)>> \o SplitOn(SubSeq(s, k + 1, Len(s)), seps)

\* re.split(r'\n\s*\n', s): cut at every newline that is followed, after
\* whitespace only, by another newline; the cut removes the whole run up to
\* the last newline of the whitespace
RECURSIVE SplitBlank(_)
SplitBlank(s) ==
  LET cuts == {i \in 1..Len(s) :
                 /\ s[i] = NL
                 /\ \E k \in (i + 1)..Len(s) :
                      s[k] = NL /\ \A m \in i..k : s[m] \in WS}
      i == Least(cuts)
      k == Greatest({k \in (i + 1)..Len(s) :
                       s[k] = NL /\ \A m \in i..k : s[m] \in WS})
  IN IF cuts = {} THEN <<s>>
     ELSE <<SubSeq(s, 1, i - 1)>> \o SplitBlank(SubSeq(s, k + 1, Len(s)))

\* [e.strip() for e in entries if e.strip()]
RECURSIVE StripNonEmpty(_)
StripNonEmpty(entries) ==
  IF entries = <<>> THEN <<>>
  ELSE IF Strip(Head(entries)) = <<>> THEN StripNonEmpty(Tail(entries))
  ELSE <<Strip(Head(entries))>> \o StripNonEmpty(Tail(entries))

\* the stripped non-empty pieces text[p1:p2], text[p2:p3], ... for the token
\* indices pts, in increasing order, and the end of the text
RECURSIVE CutAt(_, _, _)
CutAt(text, pts, start) ==
  LET after == {q \in pts : q > start}
      end == IF after = {} THEN Len(text) + 1 ELSE Least(after)
      entry == Strip(SubSeq(text, start, end - 1))
      rest == IF after = {} THEN <<>> ELSE CutAt(text, pts, end)
  IN IF entry = <<>> THEN rest ELSE <<entry>> \o rest

\* s.rstrip(chars) for single-character tokens chars
RECURSIVE RStripChars(_, _)
RStripChars(s, chars) ==
  IF s # <<>> /\ s[Len(s)] \in chars
  THEN RStripChars(SubSeq(s, 1, Len(s) - 1), chars) ELSE s

\* x not in xs: xs.append(x)
AppendNew(xs, x) ==
  IF \E i \in 1..Len(xs) : xs[i] = x THEN xs ELSE Append(xs, x)

\* the tokens that start with, end with or hold any of the keys
AnyStartsWith(keys) == UNION {StartsWith(k) : k \in keys}
AnyEndsWith(keys) == UNION {EndsWith(k) : k \in keys}
AnyWordsWith(keys) == UNION {WordsWith(k) : k \in keys}


(***************************************************************************)
(* extractors/education_extractor.py                                       *)
(***************************************************************************)
\* an alternative of a degree pattern: a phrase, in small letters, followed
\* by nothing, by  .+?  ("any") or by  [A-Za-z\s]+  ("letters")
Fixed(p) == [head |-> p, tail |-> "none"]

\* DEGREE_PATTERNS, in the order of the source; every pattern has the frame
\* (?i)(?:^|\s)( alternatives )(?:\s|$|,|\.)
DEGREE_PATTERNS_body ==
  << <<Fixed(<<"b", ".", "tech">>), Fixed(Ph(<<"bachelor", "of", "technology">>))>>,
     <<Fixed(<<"b", ".", "e", ".">>), Fixed(Ph(<<"bachelor", "of", "engineering">>))>>,
     <<[head |-> Ph(<<"bachelor", "of", "engineering", "in">>) \o <<SP>>,
        tail |-> "letters"]>>,
     <<Fixed(<<"b", ".", "sc", ".">>), Fixed(Ph(<<"bachelor", "of", "science">>))>>,
     <<Fixed(<<"b", ".", "s", ".">>),
       [head |-> <<"b", ".", "s", ".", SP, "in", SP>>, tail |-> "any"],
       [head |-> <<"b", ".", "s", SP, "in", SP>>, tail |-> "any"],
       Fixed(Ph(<<"bachelor", "of", "science">>))>>,
     <<Fixed(Ph(<<"bachelor", "of", "science", "in">>))>>,
     <<Fixed(Ph(<<"bachelor", "of", "science">>))>>,
     <<Fixed(<<"b", ".", "a", ".">>), Fixed(Ph(<<"bachelor", "of", "arts">>))>>,
     <<Fixed(<<"b", ".", "com", ".">>), Fixed(Ph(<<"bachelor", "of", "commerce">>))>>,
     <<Fixed(<<"m", ".", "tech">>), Fixed(Ph(<<"master", "of", "technology">>))>>,
     <<Fixed(<<"m", ".", "e", ".">>), Fixed(Ph(<<"master", "of", "engineering">>))>>,
     <<Fixed(<<"m", ".", "sc", ".">>), Fixed(Ph(<<"master", "of", "science">>))>>,
     <<Fixed(<<"m", ".", "s", ".">>),
       [head |-> <<"m", ".", "s", ".", SP, "in", SP>>, tail |-> "any"],
       [head |-> <<"m", ".", "s", SP, "in", SP>>, tail |-> "any"],
       Fixed(Ph(<<"master", "of", "science">>))>>,
     <<Fixed(Ph(<<"master", "of", "science", "in">>))>>,
     <<Fixed(Ph(<<"master", "of", "science">>))>>,
     <<Fixed(<<"m", ".", "a", ".">>), Fixed(Ph(<<"master", "of", "arts">>))>>,
     <<Fixed(<<"m", ".", "com", ".">>), Fixed(Ph(<<"master", "of", "commerce">>))>>,
     <<Fixed(<<"mba">>), Fixed(Ph(<<"master", "of", "business", "administration">>))>>,
     <<Fixed(<<"ph", ".", "d", ".">>), Fixed(Ph(<<"doctor", "of", "philosophy">>))>>,
     <<Fixed(<<"diploma">>), Fixed(Ph(<<"associate", "degree">>))>>,
     <<Fixed(<<"hsc">>), Fixed(<<"12th">>), Fixed(<<"xii">>),
       Fixed(Ph(<<"higher", "secondary">>))>>,
     <<Fixed(<<"ssc">>), Fixed(<<"10th">>), Fixed(<<"x">>), Fixed(<<"secondary">>)>> >>

\* the token after the group when the alternative alt matches with its group
\* at token j and is followed by (?:\s|$|,|\.); 0 when it does not match
AltEnd_body(s, j, alt) ==
  LET c == j + Len(alt.head) IN
    IF ~PhraseAt(s, j, alt.head) THEN 0
    ELSE IF alt.tail = "none" THEN (IF RightOK(s, c) THEN c ELSE 0)
    ELSE IF alt.tail = "any"
      THEN Least({e \in (c + 1)..(Len(s) + 1) :
                    (\A k \in c..(e - 1) : s[k] # NL) /\ RightOK(s, e)})
    ELSE Greatest({e \in (c + 1)..AlphaRunEnd(s, c) : RightOK(s, e)})

\* the first alternative of pattern P that matches with its group at j
AltOf(s, j, P) == Least({a \in 1..Len(P) : AltEnd(s, j, P[a]) # 0})

\* pattern.search(s): the token at which the group of the leftmost match of
\* P starts, 0 when P does not match
PatternStart(s, P) ==
  Least({j \in 1..Len(s) : LeftOK(s, j) /\ AltOf(s, j, P) # 0})

PatternEnd(s, P, j) == AltEnd(s, j, P[AltOf(s, j, P)])

\* the starts of the matches of the degree patterns that lie at the start
\* of the text or right after a newline (a match starts at the whitespace
\* before its group, when there is one)
DegreeSplitPoints_body(text) ==
  {q \in 1..Len(text) :
     /\ q = 1 \/ text[q - 1] = NL
     /\ \E k \in 1..Len(DEGREE_PATTERNS) :
          \/ q = 1 /\ AltOf(text, 1, DEGREE_PATTERNS[k]) # 0
          \/ text[q] \in WS /\ AltOf(text, q + 1, DEGREE_PATTERNS[k]) # 0}

split_education_entries_body(text) ==
  LET blank == SplitBlank(text)
      byDegree == IF Len(blank) <= 1
                  THEN CutAt(text, DegreeSplitPoints(text) \cup {1}, 1)
                  ELSE blank
      entries == IF Len(byDegree) <= 1 THEN SplitLines(text) ELSE byDegree
  IN StripNonEmpty(entries)

\* FULL_DEGREE_INDICATORS: phrases looked for anywhere, in any case
FULL_DEGREE_INDICATORS_body ==
  {<<"bachelor", "'", "s", SP, "degree">>, <<"master", "'", "s", SP, "degree">>,
   <<"doctorate">>, <<"ph", ".", "d">>, <<"mba">>,
   <<"b", ".", "s", ".">>, <<"b", ".", "a", ".">>, <<"b", ".", "tech">>,
   <<"b", ".", "e", ".">>, <<"m", ".", "s", ".">>, <<"m", ".", "a", ".">>,
   <<"m", ".", "tech">>, <<"m", ".", "b", ".", "a">>, <<"associate", "'", "s">>,
   <<"a", ".", "a", ".">>, <<"a", ".", "s", ".">>,
   Ph(<<"bachelor", "of">>), Ph(<<"master", "of">>), Ph(<<"doctor", "of">>),
   Ph(<<"associate", "of">>)}

split_by_degree_indicators_body(text) ==
  LET pts == {q \in 1..Len(text) :
                /\ q = 1 \/ text[q - 1] \in {NL, ".", ",", ";"}
                /\ \E p \in FULL_DEGREE_INDICATORS : PhraseAt(text, q, p)}
  IN CutAt(text, pts \cup {1}, 1)


\* \s+in\s+([A-Za-z][A-Za-z\s]+?)(?:,|\.|$|\n) from token k on: the tokens
\* [first, last] of the captured group, first = 0 when there is no match;
\* ci tells whether "in" is matched in any case
InField_body(s, k, ci) ==
  LET a == SkipWS(s, k)
      b == SkipWS(s, a + 1)
      isIn == a > k /\ a <= Len(s)
                /\ (IF ci THEN LowerWord(s[a]) = "in" ELSE s[a] = "in")
      e == Least({e \in (b + 1)..(Len(s) + 1) :
                    /\ \A i \in b..(e - 1) : IsAlpha(s[i]) \/ s[i] \in WS
                    /\ StrLen(SubSeq(s, b, e - 1)) >= 2
                    /\ e = Len(s) + 1 \/ s[e] \in PhraseEnd})
  IN IF isIn /\ b > a + 1 /\ b <= Len(s) /\ IsAlpha(s[b]) /\ e # 0
     THEN [first |-> b, last |-> e - 1]
     ELSE [first |-> 0, last |-> 0]

\* re.search(escape(degree) + r"\s+in\s+([A-Za-z][A-Za-z\s]+?)(?:,|\.|$|\n)",
\* text): the captured group, <<>> when there is no match
FieldAfter_body(text, degree) ==
  LET n == Len(degree)
      at == Least({i \in 1..(Len(text) - n + 1) :
                     /\ SubSeq(text, i, i + n - 1) = degree
                     /\ InField(text, i + n, FALSE).first # 0})
      f == InField(text, at + n, FALSE)
  IN IF at = 0 THEN <<>> ELSE SubSeq(text, f.first, f.last)

degree_keywords ==
  <<"Bachelor", "Master", "PhD", "Doctorate", "Associate", "Certificate",
    "Diploma">>

\* re.search(r"\b" + keyword + r"[\w\s]+(?:,|\.|$|\n)", text, IGNORECASE):
\* the tokens [first, last] of the match, first = 0 when there is none
KeywordPhrase_body(text, keyword) ==
  LET kw == LowerWord(keyword)
      \* the last token of the match that starts at j, 0 when none does
      EndAt(j) ==
        LET e == WordRunEnd(text, j + 1)
            more == LowerWord(text[j]) # kw
        IN IF (e > j + 1 \/ more) /\ (e > Len(text) \/ text[e] \in {",", "."})
           THEN (IF e > Len(text) THEN Len(text) ELSE e)
           ELSE Greatest({n \in (j + 1)..(e - 1) :
                            text[n] = NL /\ (n > j + 1 \/ more)})
      j == Least({j \in 1..Len(text) :
                    text[j] \in StartsWith(kw) /\ EndAt(j) # 0})
  IN IF j = 0 THEN [first |-> 0, last |-> 0]
     ELSE [first |-> j, last |-> EndAt(j)]

\* the loop of _extract_degree over degree_keywords, from the i-th on
RECURSIVE KeywordDegree(_, _)
KeywordDegree(text, i) ==
  IF i > Len(degree_keywords) THEN NoText
  ELSE LET keyword == degree_keywords[i]
           m == KeywordPhrase(text, keyword)
       IN IF \E j \in 1..Len(text) : LowerWord(text[j]) = LowerWord(keyword)
          THEN IF m.first # 0
               THEN RStripChars(Strip(SubSeq(text, m.first, m.last)),
                                {",", ".", ";"})
               ELSE <<keyword>>
          ELSE KeywordDegree(text, i + 1)

extract_degree_body(text) ==
  LET exact == Ph(<<"Bachelor", "of", "Engineering", "in", "Computer",
                    "Engineering">>)
      k == Least({k \in 1..Len(DEGREE_PATTERNS) :
                    PatternStart(text, DEGREE_PATTERNS[k]) # 0})
      j == PatternStart(text, DEGREE_PATTERNS[k])
      degree == SubSeq(text, j, PatternEnd(text, DEGREE_PATTERNS[k], j) - 1)
      field == FieldAfter(text, degree)
  IN IF Contains(text, exact) THEN exact
     ELSE IF k # 0
       THEN (IF field # <<>> THEN degree \o <<SP, "in", SP>> \o field
             ELSE degree)
     ELSE KeywordDegree(text, 1)

\* COMMON_FIELDS, in small letters
COMMON_FIELDS_body ==
  {Ph(<<"computer", "science">>), Ph(<<"information", "technology">>),
   Ph(<<"electrical", "engineering">>), Ph(<<"mechanical", "engineering">>),
   Ph(<<"civil", "engineering">>), Ph(<<"chemical", "engineering">>),
   <<"biology">>, <<"chemistry">>, <<"physics">>, <<"mathematics">>,
   <<"statistics">>, Ph(<<"business", "administration">>), <<"finance">>,
   <<"economics">>, <<"accounting">>, <<"marketing">>, <<"management">>,
   <<"psychology">>, <<"sociology">>, <<"history">>, <<"english">>,
   <<"literature">>, <<"communications">>, <<"journalism">>,
   Ph(<<"political", "science">>), Ph(<<"international", "relations">>),
   <<"philosophy">>, <<"education">>, <<"nursing">>, <<"medicine">>,
   <<"law">>, Ph(<<"criminal", "justice">>), <<"art">>, <<"design">>,
   <<"music">>, <<"theater">>, <<"film">>, <<"architecture">>,
   <<"agriculture">>, Ph(<<"environmental", "science">>), <<"geography">>,
   <<"anthropology">>, <<"linguistics">>, Ph(<<"information", "systems">>),
   Ph(<<"data", "science">>), Ph(<<"artificial", "intelligence">>),
   Ph(<<"machine", "learning">>), <<"cybersecurity">>}

\* common_fields_pattern.search(s): the tokens [first, last] of the leftmost
\* common field that stands in s as whole words, first = 0 when none does
CommonField_body(s) ==
  LET j == Least({j \in 1..Len(s) : \E p \in COMMON_FIELDS : PhraseAt(s, j, p)})
      p == CHOOSE p \in COMMON_FIELDS : PhraseAt(s, j, p)
  IN IF j = 0 THEN [first |-> 0, last |-> 0]
     ELSE [first |-> j, last |-> j + Len(p) - 1]

MinFieldLen == 4

is_valid_field_body(field) ==
  IF StrLen(field) < MinFieldLen THEN FALSE
  ELSE IF Len(field) = 1 /\ LowerWord(field[1]) \in
            {"the", "and", "with", "from", "also", "have", "this", "that",
             "there"} THEN FALSE
  ELSE IF CommonField(field).first # 0 THEN TRUE
  ELSE \E i \in 1..Len(field) :
         field[i] \in AnyWordsWith({"science", "engineering", "studies",
             "technology", "arts", "management", "design", "analysis",
             "systems"})

\* the token sets at which the first three FIELD_PATTERNS start: a word that
\* ends with one of the keywords
FIELD_HEADS ==
  << {"degree", "bachelor", "master", "ms", "ma", "mba", "phd", "bs", "ba"},
     {"majoring", "majored"},
     {"studied", "study", "studies"} >>

\* the group captured by the leftmost match of FIELD_PATTERNS[p], p in 1..3
FieldByHead_body(text, p) ==
  LET j == Least({j \in 1..Len(text) :
                    /\ text[j] \in AnyEndsWith(FIELD_HEADS[p])
                    /\ InField(text, j + 1, TRUE).first # 0})
      f == InField(text, j + 1, TRUE)
  IN IF j = 0 THEN <<>> ELSE SubSeq(text, f.first, f.last)

InstitutionWords == {"university", "college", "institute", "school"}

\* \s+(?:from|at|in)\s+(?:the\s+)?(?:university|college|institute|school)
\* matches from token e on
FromInstitution_body(s, e) ==
  LET a == SkipWS(s, e)
      c == SkipWS(s, a + 1)
      d == SkipWS(s, c + 1)
      inst == AnyStartsWith(InstitutionWords)
  IN /\ a > e /\ a <= Len(s) /\ LowerWord(s[a]) \in {"from", "at", "in"}
     /\ c > a + 1 /\ c <= Len(s)
     /\ \/ s[c] \in inst
        \/ LowerWord(s[c]) = "the" /\ d > c + 1 /\ d <= Len(s) /\ s[d] \in inst

\* the group captured by the leftmost match of FIELD_PATTERNS[4]
FieldBeforeInstitution_body(text) ==
  LET Cap(j) ==
        LET b == SkipWS(text, j + 1) IN
          IF b = j + 1 \/ b > Len(text) \/ ~IsAlpha(text[b]) THEN 0
          ELSE Least({e \in (b + 1)..Len(text) :
                        /\ \A i \in b..(e - 1) :
                             IsAlpha(text[i]) \/ text[i] \in WS
                        /\ StrLen(SubSeq(text, b, e - 1)) >= 2
                        /\ FromInstitution(text, e)})
      j == Least({j \in 1..Len(text) :
                    text[j] \in AnyEndsWith({"in", "of"}) /\ Cap(j) # 0})
  IN IF j = 0 THEN <<>>
     ELSE SubSeq(text, SkipWS(text, j + 1), Cap(j) - 1)

\* FIELD_PATTERNS[p].search(text).group(1), <<>> when there is no match
FieldMatch(text, p) ==
  IF p <= 3 THEN FieldByHead(text, p) ELSE FieldBeforeInstitution(text)

extract_field_of_study_body(text) ==
  LET has_degree_keyword ==
        \E i \in 1..Len(text) :
          text[i] \in AnyWordsWith({"degree", "bachelor", "master", "phd",
              "bs", "ms", "ba", "ma", "education", "studies", "major"})
      p == Least({p \in 1..4 : /\ FieldMatch(text, p) # <<>>
                               /\ is_valid_field(Strip(FieldMatch(text, p)))})
      common == CommonField(text)
  IN IF ~has_degree_keyword THEN NoText
     ELSE IF p # 0 THEN Strip(FieldMatch(text, p))
     ELSE IF common.first # 0 THEN SubSeq(text, common.first, common.last)
     ELSE NoText

ConcentrationWords ==
  {"concentration", "specialization", "focus", "major", "track", "emphasis"}

\* the two CONCENTRATION_PATTERNS; the source returns group(2) of either,
\* which is the word Concentration, ... itself for the second pattern
extract_concentration_body(text) ==
  LET Start(j) ==
        IF j + 2 <= Len(text) /\ text[j + 1] = ":" /\ text[j + 2] = SP
        THEN j + 3
        ELSE IF j + 3 <= Len(text) /\ text[j + 1] = SP
                /\ LowerWord(text[j + 2]) = "in" /\ text[j + 3] = SP
        THEN j + 4 ELSE 0
      End(c) ==
        Least({e \in (c + 1)..(Len(text) + 1) :
                 /\ \A i \in c..(e - 1) : IsAlpha(text[i]) \/ text[i] \in WS
                 /\ e = Len(text) + 1 \/ text[e] \in PhraseEnd})
      j1 == Least({j \in 1..Len(text) :
                     /\ text[j] \in AnyEndsWith(ConcentrationWords)
                     /\ Start(j) # 0 /\ Start(j) <= Len(text)
                     /\ End(Start(j)) # 0})
      \* (?:with|,) ([A-Za-z\s]+) (keyword)(?:,|\.|$|\n)
      Key(j) ==
        Greatest({k \in (j + 4)..Len(text) :
                    /\ text[j + 1] = SP /\ text[k - 1] = SP
                    /\ \A i \in (j + 2)..(k - 2) :
                         IsAlpha(text[i]) \/ text[i] \in WS
                    /\ LowerWord(text[k]) \in ConcentrationWords
                    /\ k = Len(text) \/ text[k + 1] \in PhraseEnd})
      j2 == Least({j \in 1..Len(text) :
                     /\ text[j] \in EndsWith("with") \cup {","}
                     /\ Key(j) # 0})
  IN IF j1 # 0 THEN Strip(SubSeq(text, Start(j1), End(Start(j1)) - 1))
     ELSE IF j2 # 0 THEN <<text[Key(j2)]>>
     ELSE NoText


\* COMMON_INSTITUTIONS, in small letters and in the order of the source
COMMON_INSTITUTIONS_body ==
  <<Ph(<<"harvard", "university">>), Ph(<<"yale", "university">>),
    Ph(<<"princeton", "university">>), Ph(<<"stanford", "university">>),
    Ph(<<"massachusetts", "institute", "of", "technology">>), <<"mit">>,
    Ph(<<"california", "institute", "of", "technology">>),
    Ph(<<"columbia", "university">>), Ph(<<"university", "of", "chicago">>),
    Ph(<<"university", "of", "pennsylvania">>), <<"penn">>,
    Ph(<<"university", "of", "california">>) \o <<",", SP, "berkeley">>,
    Ph(<<"cornell", "university">>), Ph(<<"university", "of", "michigan">>),
    Ph(<<"university", "of", "cambridge">>), Ph(<<"university", "of", "oxford">>),
    Ph(<<"imperial", "college", "london">>), Ph(<<"eth", "zurich">>),
    Ph(<<"national", "university", "of", "singapore">>),
    Ph(<<"tsinghua", "university">>), Ph(<<"university", "of", "toronto">>),
    Ph(<<"carnegie", "mellon", "university">>), Ph(<<"new", "york", "university">>),
    <<"marathwada", SP, "mitra", SP, "mandal", "'", "s", SP, "college">>,
    Ph(<<"marathwada", "mitra", "mandal">>)>>

\* INSTITUTION_PATTERNS: the keywords of both patterns
INSTITUTION_PATTERNS ==
  {<<"university">>, <<"college">>, <<"institute">>, <<"school">>,
   <<"academy">>, <<"education">>, <<"educational">>, <<"vidyalaya">>}

\* the degree patterns find something in s
IsDegree(s) ==
  \E k \in 1..Len(DEGREE_PATTERNS) : PatternStart(s, DEGREE_PATTERNS[k]) # 0

\* the first element x of xs with P(x), <<>> when there is none
FirstWith(xs, P(_)) ==
  LET k == Least({k \in 1..Len(xs) : P(xs[k])}) IN
    IF k = 0 THEN <<>> ELSE xs[k]

extract_institution_body(text) ==
  LET \* common_inst_regex
      Common(j, a) ==
        LET c == COMMON_INSTITUTIONS[a] IN
          IF Len(c) = 1 THEN text[j] \in WordsWith(c[1])
          ELSE PhraseAt(text, j, c)
      cj == Least({j \in 1..Len(text) :
                     \E a \in 1..Len(COMMON_INSTITUTIONS) : Common(j, a)})
      ca == Least({a \in 1..Len(COMMON_INSTITUTIONS) : Common(cj, a)})
      c == COMMON_INSTITUTIONS[ca]
      \* ([A-Za-z\s&]+(?:University|College|Institute|School))
      InRun(w) == IsAlpha(w) \/ w \in WS \/ w = "&"
      Last(i) ==
        Greatest({k \in (i + 1)..Len(text) :
                    /\ \A m \in i..k : InRun(text[m])
                    /\ text[k] \in AnyStartsWith(InstitutionWords)})
      ui == Least({i \in 1..Len(text) : InRun(text[i]) /\ Last(i) # 0})
      \* the lines and segments searched after that
      HasInst(x) ==
        \E i \in 1..Len(x) :
          x[i] \in AnyWordsWith({"university", "college", "institute"})
      HasPattern(x) == HasKeyword(Strip(x), INSTITUTION_PATTERNS)
      NotDegree(x) == ~IsDegree(Strip(x)) /\ Strip(x) # <<>>
      line == FirstWith(SplitLines(text), HasInst)
      segments == SplitOn(text, {",", ";", "|", NL})
  IN IF cj # 0
       THEN (IF Len(c) = 1 THEN <<Found(text[cj], c[1])>>
             ELSE SubSeq(text, cj, cj + Len(c) - 1))
     ELSE IF ui # 0 THEN Strip(SubSeq(text, ui, Last(ui)))
     ELSE IF ~HasKeyword(text, INSTITUTION_PATTERNS)
       THEN (IF HasInst(text)
             THEN Strip(FirstWith(SplitOn(line, {"|", ","}), HasInst))
             ELSE NoText)
     ELSE IF \E k \in 1..Len(segments) : HasPattern(segments[k])
       THEN Strip(FirstWith(segments, HasPattern))
     ELSE IF \E k \in 1..Len(segments) : NotDegree(segments[k])
       THEN Strip(FirstWith(segments, NotDegree))
     ELSE NoText

\* the ends of a year range: Present, Current (as written) or a year
\* re.search(r"(\d{4})\s*-\s*(\d{4}|\s*Present|\s*Current)", text)
DateRange_body(text) ==
  LET Dash(i) == SkipWS(text, i + 1)
      To(i) == SkipWS(text, Dash(i) + 1)
      i == Least({i \in 1..Len(text) :
                    /\ text[i] \in YearWords
                    /\ Dash(i) <= Len(text) /\ text[Dash(i)] = "-"
                    /\ To(i) <= Len(text)
                    /\ text[To(i)] \in YearWords \cup {"Present", "Current"}})
  IN IF i = 0 THEN <<>>
     ELSE IF text[To(i)] \in {"Present", "Current"}
       THEN <<text[i], SP, "-", SP, "Present">>
     ELSE <<text[i], SP, "-", SP, text[To(i)]>>

\* the token after the group of DATE_PATTERNS[p] when the group starts at
\* token j and is followed by (?:\s|$|,|\.); 0 when it does not match
DateGroupEnd_body(s, j, p) ==
  LET dash == SkipWS(s, j + 1)
      to == SkipWS(s, dash + 1)
      e == IF p = 1
           THEN (IF /\ s[j] \in YearWords
                    /\ dash <= Len(s) /\ s[dash] = "-" /\ to <= Len(s)
                    /\ \/ s[to] \in YearWords
                       \/ LowerWord(s[to]) \in {"present", "ongoing"}
                 THEN to + 1 ELSE 0)
           ELSE IF p = 2 THEN (IF s[j] \in YearWords THEN j + 1 ELSE 0)
           ELSE (IF /\ IsAlpha(s[j])
                    /\ s[j] \in AnyStartsWith({"jan", "feb", "mar", "apr",
                          "may", "jun", "jul", "aug", "sep", "oct", "nov", "dec"})
                    /\ j + 2 <= Len(s) /\ s[j + 1] = SP
                    /\ s[j + 2] \in YearWords
                 THEN j + 3 ELSE 0)
  IN IF e # 0 /\ RightOK(s, e) THEN e ELSE 0

\* [m.group(0).strip() for m in DATE_PATTERNS[p].finditer(s)], looking from
\* token from on: each match takes the whitespace before its group and the
\* character after it
RECURSIVE DateMatches(_, _, _)
DateMatches(s, p, from) ==
  LET j == Least({j \in from..Len(s) :
                    /\ j = 1 \/ (j > from /\ s[j - 1] \in WS)
                    /\ DateGroupEnd(s, j, p) # 0})
      e == DateGroupEnd(s, j, p)
      last == IF e > Len(s) THEN Len(s) ELSE e
  IN IF j = 0 THEN <<>>
     ELSE <<Strip(SubSeq(s, j, last))>> \o DateMatches(s, p, last + 1)

\* dates.append(date) for every date not yet in dates
RECURSIVE AppendAllNew(_, _)
AppendAllNew(dates, ds) ==
  IF ds = <<>> THEN dates
  ELSE AppendAllNew(AppendNew(dates, Head(ds)), Tail(ds))

extract_dates_body(text) ==
  IF DateRange(text) # <<>> THEN <<DateRange(text)>>
  ELSE AppendAllNew(AppendAllNew(AppendAllNew(<<>>, DateMatches(text, 1, 1)),
                                 DateMatches(text, 2, 1)),
                    DateMatches(text, 3, 1))


\* the ends (exclusive) of the numbers \d+\.\d+, \d+\. and \d+ that start at
\* token b, in the order in which the pattern tries them; the form \d+\. is
\* tried only when dot is TRUE
NumEnds_body(s, b, dot) ==
  IF b > Len(s) \/ s[b] \notin IntWords THEN <<>>
  ELSE (IF b + 2 <= Len(s) /\ s[b + 1] = "." /\ s[b + 2] \in IntWords
        THEN <<b + 3>> ELSE <<>>)
       \o (IF dot /\ b + 1 <= Len(s) /\ s[b + 1] = "." THEN <<b + 2>> ELSE <<>>)
       \o <<b + 1>>

\* the phrases of the honours patterns
HonorsPhrases_body ==
  {Ph(<<"cum", "laude">>), Ph(<<"magna", "cum", "laude">>),
   Ph(<<"summa", "cum", "laude">>), Ph(<<"with", "honors">>),
   Ph(<<"with", "distinction">>), Ph(<<"with", "high", "distinction">>)}

ScorePhrases_body ==
  {Ph(<<"cum", "laude">>), Ph(<<"magna", "cum", "laude">>),
   Ph(<<"summa", "cum", "laude">>), <<"distinction">>, <<"merit">>,
   Ph(<<"first", "class">>), Ph(<<"second", "class">>)}

\* the phrase p stands at token j of s, in any case; a phrase of one word
\* may be a part of the token
PartAt(s, j, p) ==
  IF Len(p) = 1 THEN s[j] \in WordsWith(p[1]) ELSE PhraseAt(s, j, p)

\* the leftmost phrase of the set ps in s, in any case: the text matched,
\* <<>> when there is none
PhraseSearch_body(s, ps) ==
  LET j == Least({j \in 1..Len(s) : \E p \in ps : PartAt(s, j, p)})
      p == CHOOSE p \in ps : PartAt(s, j, p)
  IN IF j = 0 THEN <<>>
     ELSE IF Len(p) = 1 THEN <<Found(s[j], p[1])>>
     ELSE SubSeq(s, j, j + Len(p) - 1)

\* SCORE_PATTERNS[p].search(text).group(0).strip(), <<>> when there is no
\* match
ScoreMatch_body(text, p) ==
  LET n == Len(text)
      \* the last token of the match whose group starts at j, 0 if none
      End1(j) ==
        LET b == Least({b \in (j + 1)..(n + 1) :
                          /\ \A k \in (j + 1)..(b - 1) : text[k] \in WS \cup {":"}
                          /\ b = n + 1 \/ text[b] \notin WS \cup {":"}})
            ends == NumEnds(text, b, TRUE)
            Stop(e) == e > n \/ text[e] \in WS \cup {"/", ",", "."}
            After(e) == IF e <= n /\ text[e] = "%" /\ Stop(e + 1) THEN e + 1
                        ELSE IF Stop(e) THEN e ELSE 0
            i == Least({i \in 1..Len(ends) : After(ends[i]) # 0})
        IN IF LowerWord(text[j]) \notin
                {"gpa", "cgpa", "percentage", "score", "marks"} \/ i = 0
           THEN 0
           ELSE IF After(ends[i]) > n THEN n ELSE After(ends[i])
      End2(j) ==
        LET ends == NumEnds(text, j, FALSE)
            Second(e) ==
              LET es == NumEnds(text, e + 1, FALSE)
                  i == Least({i \in 1..Len(es) : RightOK(text, es[i])})
              IN IF e > n \/ text[e] # "/" \/ i = 0 THEN 0 ELSE es[i]
            i == Least({i \in 1..Len(ends) : Second(ends[i]) # 0})
        IN IF i = 0 THEN 0
           ELSE IF Second(ends[i]) > n THEN n ELSE Second(ends[i])
      End3(j) ==
        LET ends == NumEnds(text, j, FALSE)
            i == Least({i \in 1..Len(ends) :
                          /\ ends[i] <= n /\ text[ends[i]] = "%"
                          /\ RightOK(text, ends[i] + 1)})
        IN IF i = 0 THEN 0
           ELSE IF ends[i] + 1 > n THEN n ELSE ends[i] + 1
      End(j) == IF p = 1 THEN End1(j) ELSE IF p = 2 THEN End2(j) ELSE End3(j)
      Before(j) == IF p = 1 THEN j = 1 \/ text[j - 1] \in WS \cup {":"}
                   ELSE LeftOK(text, j)
      j == Least({j \in 1..n : Before(j) /\ End(j) # 0})
  IN IF p = 4 THEN PhraseSearch(text, ScorePhrases)
     ELSE IF j = 0 THEN <<>>
     ELSE Strip(SubSeq(text, IF j = 1 THEN 1 ELSE j - 1, End(j)))

extract_score_body(text) ==
  LET \* (?i)GPA\s*(?::|of|=)?\s*(\d+\.\d+)
      Num(j) ==
        LET a == SkipWS(text, j + 1)
            b == IF a <= Len(text)
                    /\ (text[a] \in {":", "="} \/ LowerWord(text[a]) = "of")
                 THEN SkipWS(text, a + 1) ELSE a
        IN IF /\ b + 2 <= Len(text) /\ text[b] \in IntWords
              /\ text[b + 1] = "." /\ text[b + 2] \in IntWords
           THEN b ELSE 0
      g == Least({j \in 1..Len(text) : text[j] \in EndsWith("gpa") /\ Num(j) # 0})
      honors == PhraseSearch(text, HonorsPhrases)
      p == Least({p \in 1..4 : ScoreMatch(text, p) # <<>>})
  IN IF g # 0 THEN <<"GPA", ":", SP>> \o SubSeq(text, Num(g), Num(g) + 2)
     ELSE IF honors # <<>> THEN honors
     ELSE IF p # 0 THEN ScoreMatch(text, p)
     ELSE NoText

\* an operation that returns val, or raises the exception exc
Return(val) == [exc |-> None, val |-> val]
Raise(exc) == [exc |-> exc, val |-> <<>>]

\* extract_education rejects texts shorter than this many characters
MinEducationLen == 10

\* extract_education splits by degree indicators only texts longer than this
LongEducationLen == 100

\* HasTwoLines without the test of the length
AlwaysTwoLines(lines) == TRUE

\* the guard of the fallback for common formats: the entry has two lines
HasTwoLines(lines) == Len(lines) >= 2

\* a field of study that is not a valid one is dropped
ValidField(field) ==
  IF Truthy(field) /\ ~is_valid_field(field) THEN NoText ELSE field

\* the field of study is added to a degree that has no "in"
DegreeWithField_body(degree, field_of_study) ==
  IF /\ Truthy(degree) /\ Truthy(field_of_study)
     /\ ~\E i \in 1..Len(degree) : degree[i] \in WordsWith("in")
  THEN degree \o <<SP, "in", SP>> \o field_of_study ELSE degree

\* the concentration is added to a degree that does not name one
DegreeWithConcentration_body(degree, concentration) ==
  IF /\ Truthy(degree) /\ Truthy(concentration)
     /\ ~\E i \in 1..Len(degree) : degree[i] \in WordsWith("concentration")
  THEN degree \o <<",", SP>> \o concentration \o <<SP, "Concentration">>
  ELSE degree

\* the fallback for common formats: the first line as the degree
FallbackDegree(first_line, degree) ==
  IF \E i \in 1..Len(first_line) :
       first_line[i] \in AnyWordsWith({"bachelor", "master", "degree",
                                 "bs", "ms", "ba", "ma", "phd"})
  THEN first_line ELSE degree

\* the fallback for common formats: the second line as the institution
FallbackInstitution(second_line, institution) ==
  IF \E i \in 1..Len(second_line) :
       second_line[i] \in AnyWordsWith(InstitutionWords)
  THEN second_line ELSE institution

\* EducationRecord without the test on degree and institution
EducationRecordUnguarded(clean_entry, degree, institution) ==
  Return(<<[degree |-> degree, institution |-> institution,
            dates |-> extract_dates(clean_entry),
            score |-> extract_score(clean_entry),
            raw_text |-> clean_entry]>>)

\* only entries that have a degree or an institution are added
EducationRecord_body(clean_entry, degree, institution) ==
  IF Truthy(degree) \/ Truthy(institution)
  THEN Return(<<[degree |-> degree, institution |-> institution,
                 dates |-> extract_dates(clean_entry),
                 score |-> extract_score(clean_entry),
                 raw_text |-> clean_entry]>>)
  ELSE Return(<<>>)

\* the entry from the degree and the institution that the patterns gave
EducationFields_body(clean_entry, lines, degree, institution) ==
  IF clean_entry = <<>> THEN Return(<<>>)
  ELSE IF ~Truthy(degree) /\ ~Truthy(institution) /\ HasTwoLines(lines)
    THEN IF Len(lines) < 2 THEN Raise("IndexError")
         ELSE EducationRecord(clean_entry,
                FallbackDegree(Strip(lines[1]), degree),
                FallbackInstitution(Strip(lines[2]), institution))
  ELSE EducationRecord(clean_entry, degree, institution)

CleanEducationEntry_body(entry, clean_entry) ==
  EducationFields(clean_entry, SplitLines(entry),
    DegreeWithConcentration(
      DegreeWithField(extract_degree(clean_entry),
                      ValidField(extract_field_of_study(clean_entry))),
      extract_concentration(clean_entry)),
    extract_institution(clean_entry))

\* the body of the loop of extract_education for one entry: the entry found
\* (or no entry), or the exception raised
EducationEntry(entry) == CleanEducationEntry(entry, clean_text(entry))


\* the loop of extract_education over the entries: the entries found, or the
\* exception that an entry raised
EducationEntries_body(entries, found) ==
  IF entries = <<>> THEN Return(found)
  ELSE LET r == EducationEntry(Head(entries)) IN
         IF r.exc # None THEN r
         ELSE EducationEntries(Tail(entries), found \o r.val)

extract_education_body(text) ==
  LET entries0 == split_education_entries(text)
      entries == IF Len(entries0) <= 1 /\ StrLen(text) > LongEducationLen
                 THEN split_by_degree_indicators(text) ELSE entries0
  IN IF text = <<>> \/ StrLen(text) < MinEducationLen THEN Return(<<>>)
     ELSE EducationEntries(entries, <<>>)


(***************************************************************************)
(* extractors/experience_extractor.py                                      *)
(***************************************************************************)
\* "w1 w2" in s, as written: a token that ends with w1, one space and a
\* token that begins with w2
HasPair_body(s, w1, w2) ==
  \E j \in 1..(Len(s) - 2) :
    /\ s[j] \in EndsWithExact(w1)
    /\ s[j + 1] = SP
    /\ s[j + 2] \in StartsWithExact(w2)

\* the keywords of the three JOB_TITLE_PATTERNS, in small letters; every
\* pattern has the frame (?i)(?:^|\s)( keywords )(?:\s|$|,|\.)
JOB_TITLE_PATTERNS_body ==
  {<<w>> : w \in {"engineer", "developer", "manager", "director", "analyst",
                  "consultant", "specialist", "coordinator", "administrator",
                  "assistant", "intern", "architect", "designer", "lead",
                  "head", "chief", "officer", "vp", "president", "supervisor",
                  "software", "web", "ui", "ux", "mobile", "devops", "qa",
                  "test", "data", "ai", "cloud", "network", "systems",
                  "security", "product", "project", "program", "business",
                  "marketing", "sales", "hr", "operations"}}
  \cup {<<a, x, "end">> : a \in {"front", "back"}, x \in WS \cup {"-"}}
  \cup {<<"full", x, "stack">> : x \in WS \cup {"-"}}
  \cup {Ph(<<"machine", "learning">>), Ph(<<"data", "scientist">>),
        Ph(<<"machine", "learning", "engineer">>), Ph(<<"devops", "engineer">>),
        Ph(<<"site", "reliability", "engineer">>), Ph(<<"software", "engineer">>),
        Ph(<<"junior", "developer">>)}

\* the keywords of the four COMPANY_PATTERNS, in small letters
COMPANY_PATTERNS_body ==
  {<<"inc", ".">>, <<"llc">>, <<"ltd", ".">>, <<"limited">>, <<"corp", ".">>,
   <<"corporation">>, <<"company">>, <<"co", ".">>, <<"technologies">>,
   <<"solutions">>, <<"systems">>, <<"services">>, <<"group">>, <<"partners">>,
   <<"associates">>, <<"consultants">>, <<"tech">>, <<"analytics">>,
   <<"digital">>, <<"software">>, <<"labs">>, <<"innovations">>}

\* COMMON_COMPANIES, in the order of the source
COMMON_COMPANIES_body ==
  <<<<"ABC", "Tech">>, <<"XYZ", "Solutions">>, <<"DataCorp", "Analytics">>,
    <<"TechStart", "Solutions">>, <<"Insight", "Data", "Systems">>,
    <<"Tech", "Innovations">>, <<"Global", "Systems">>,
    <<"Digital", "Solutions">>>>

\* company.lower() in text.lower(), for the words c of a company name
HasCompany_body(text, c) ==
  \E j \in 1..Len(text) :
    /\ j + 2 * Len(c) - 2 <= Len(text)
    /\ text[j] \in EndsWith(LowerWord(c[1]))
    /\ \A i \in 2..Len(c) :
         /\ text[j + 2 * i - 3] = SP
         /\ IF i = Len(c)
            THEN text[j + 2 * i - 2] \in StartsWith(LowerWord(c[i]))
            ELSE LowerWord(text[j + 2 * i - 2]) = LowerWord(c[i])

\* some token of s is, in any case, one of the words ws
HasLower(s, ws) == \E i \in 1..Len(s) : LowerWord(s[i]) \in ws

\* \b\d{4}\s*-\s*\d{4}\b|\b\d{4}\s*-\s*Present\b, in any case
HasYearRange_body(s) ==
  \E i \in 1..Len(s) :
    LET dash == SkipWS(s, i + 1)
        to == SkipWS(s, dash + 1)
    IN /\ s[i] \in YearWords
       /\ dash <= Len(s) /\ s[dash] = "-"
       /\ to <= Len(s)
       /\ s[to] \in YearWords \/ LowerWord(s[to]) = "present"

is_likely_experience_section_body(text) ==
  \/ HasLower(text, {"experience", "employment", "internship"})
  \/ \E j \in 1..(Len(text) - 2) :
       PhraseAt(text, j, Ph(<<"work", "history">>))
  \/ /\ HasYearRange(text)
     /\ HasLower(text, {"junior", "senior", "lead", "principal", "chief", "head"})
  \/ \E k \in 1..Len(COMMON_COMPANIES) : HasCompany(text, COMMON_COMPANIES[k])

\* the starts of the matches of the job title patterns that lie at the
\* start of the text or right after a newline
TitleSplitPoints_body(text) ==
  {q \in 1..Len(text) :
     /\ q = 1 \/ text[q - 1] = NL
     /\ \E p \in JOB_TITLE_PATTERNS :
          \/ q = 1 /\ KeywordAt(text, 1, p)
          \/ text[q] \in WS /\ KeywordAt(text, q + 1, p)}

\* _split_experience_entries that tries the paragraphs before the job titles
SplitParagraphsFirst(text) ==
  LET paragraphs == SplitBlank(text)
      entries == IF Len(paragraphs) <= 1
                 THEN CutAt(text, TitleSplitPoints(text) \cup {1}, 1)
                 ELSE paragraphs
  IN StripNonEmpty(entries)

split_experience_entries_body(text) ==
  LET byTitle == CutAt(text, TitleSplitPoints(text) \cup {1}, 1)
      entries == IF Len(byTitle) <= 1 THEN SplitBlank(text) ELSE byTitle
  IN StripNonEmpty(entries)

\* the titles _extract_job_title looks for anywhere in the text, in small
\* letters and in the order of the source
SPECIFIC_TITLES_body ==
  <<<<"software", "engineer">>, <<"junior", "developer">>,
    <<"senior", "developer">>, <<"web", "developer">>, <<"data", "scientist">>,
    <<"lead", "data", "scientist">>, <<"senior", "data", "scientist">>,
    <<"machine", "learning", "engineer">>, <<"devops", "engineer">>>>

\* the title t, words in small letters, is found in s from token j on: its
\* first word may end a token, its last word may begin one
TitleAt_body(s, j, t) ==
  /\ j + 2 * Len(t) - 2 <= Len(s)
  /\ s[j] \in EndsWith(t[1])
  /\ \A i \in 2..Len(t) :
       /\ s[j + 2 * i - 3] = SP
       /\ IF i = Len(t) THEN s[j + 2 * i - 2] \in StartsWith(t[i])
          ELSE LowerWord(s[j + 2 * i - 2]) = t[i]

extract_job_title_body(text) ==
  LET j == Least({j \in 1..Len(text) :
                    \E a \in 1..Len(SPECIFIC_TITLES) :
                      TitleAt(text, j, SPECIFIC_TITLES[a])})
      a == Least({a \in 1..Len(SPECIFIC_TITLES) :
                    TitleAt(text, j, SPECIFIC_TITLES[a])})
      t == SPECIFIC_TITLES[a]
      last == j + 2 * Len(t) - 2
      first_line == SplitLines(text)[1]
      segments == SplitOn(first_line, {",", ";", "|", NL})
      IsTitleSegment(x) == HasKeyword(Strip(x), JOB_TITLE_PATTERNS)
  IN IF j # 0
       THEN SubSeq(text, j, last - 1) \o <<Found(text[last], t[Len(t)])>>
     ELSE IF \E k \in 1..Len(segments) : IsTitleSegment(segments[k])
       THEN Strip(FirstWith(segments, IsTitleSegment))
     ELSE Strip(segments[1])


\* the first two words of the line l, when l begins with
\* [A-Za-z0-9]+\s+[A-Za-z0-9]+ and, if ended is TRUE, (?:,|\s+|$) follows
TwoWords_body(l, ended) ==
  LET k == SkipWS(l, 2) IN
    IF /\ l # <<>> /\ IsWordTok(l[1]) /\ k > 2 /\ k <= Len(l) /\ IsWordTok(l[k])
       /\ (~ended \/ k = Len(l) \/ l[k + 1] \in WS \cup {","})
    THEN SubSeq(l, 1, k) ELSE <<>>

\* the words that may follow a company name on the second line
CompanySuffixes ==
  <<"Analytics", "Tech", "Solutions", "Inc", "LLC", "Ltd", "Systems", "Corp",
    "Corporation">>

\* ([A-Za-z0-9]+\s+[A-Za-z0-9]+(?:\s+(?:Analytics|Tech|...))?) searched in
\* the line l: the text matched, <<>> when there is no match
SecondLineCompany_body(l) ==
  LET Second(i) == SkipWS(l, i + 1)
      i == Least({i \in 1..Len(l) :
                    /\ IsWordTok(l[i]) /\ Second(i) > i + 1
                    /\ Second(i) <= Len(l) /\ IsWordTok(l[Second(i)])})
      k == Second(i)
      m == SkipWS(l, k + 1)
      Dotted(x) == x \in {"Inc", "Ltd", "Corp"}
      a == Least({a \in 1..Len(CompanySuffixes) :
                    /\ m > k + 1 /\ m <= Len(l)
                    /\ l[m] \in StartsWithExact(CompanySuffixes[a])
                    /\ Dotted(CompanySuffixes[a]) =>
                         (l[m] = CompanySuffixes[a] /\ m < Len(l)
                            /\ l[m + 1] = ".")})
  IN IF i = 0 THEN <<>>
     ELSE IF a = 0 THEN SubSeq(l, i, k)
     ELSE SubSeq(l, i, m - 1) \o <<CompanySuffixes[a]>>
            \o (IF Dotted(CompanySuffixes[a]) THEN <<".">> ELSE <<>>)

\* the concatenation of the lists xss
RECURSIVE Flatten(_)
Flatten(xss) == IF xss = <<>> THEN <<>> ELSE Head(xss) \o Flatten(Tail(xss))

extract_company_body(text) ==
  LET Named(w) == Least({j \in 1..Len(text) : LowerWord(text[j]) = w})
      \* \b(w1\s+w2)\b in any case
      PairStart(w1, w2) ==
        Least({j \in 1..Len(text) :
                 /\ LowerWord(text[j]) = w1
                 /\ SkipWS(text, j + 1) > j + 1
                 /\ SkipWS(text, j + 1) <= Len(text)
                 /\ LowerWord(text[SkipWS(text, j + 1)]) = w2})
      Pair(w1, w2) ==
        SubSeq(text, PairStart(w1, w2), SkipWS(text, PairStart(w1, w2) + 1))
      lines == SplitLines(text)
      company_match ==
        IF Len(lines) >= 2 THEN TwoWords(Strip(lines[2]), TRUE) ELSE <<>>
      common == Least({k \in 1..Len(COMMON_COMPANIES) :
                         HasCompany(text, COMMON_COMPANIES[k])})
      second_line_match ==
        IF Len(lines) >= 2 THEN SecondLineCompany(lines[2]) ELSE <<>>
      company_candidate == Strip(SplitOn(lines[2], {"|"})[1])
      check_lines == IF Len(lines) > 1 THEN SubSeq(lines, 1, 2) ELSE lines
      segments ==
        Flatten([k \in 1..Len(check_lines) |->
                   SplitOn(check_lines[k], {",", ";", "|"})])
      IsCompany(x) == HasKeyword(Strip(x), COMPANY_PATTERNS)
  IN IF Named("codeclause") # 0 THEN <<text[Named("codeclause")]>>
     ELSE IF PairStart("abc", "tech") # 0 THEN Pair("abc", "tech")
     ELSE IF PairStart("xyz", "solutions") # 0 THEN Pair("xyz", "solutions")
     ELSE IF company_match # <<>> THEN company_match
     ELSE IF common # 0 THEN Ph(COMMON_COMPANIES[common])
     ELSE IF second_line_match # <<>> THEN Strip(second_line_match)
     ELSE IF Len(lines) >= 2 /\ ~HasLower(company_candidate, {"in", "at", "for"})
       THEN (IF company_candidate # <<>>
                /\ company_candidate[Len(company_candidate)] = ","
             THEN SubSeq(company_candidate, 1, Len(company_candidate) - 1)
             ELSE company_candidate)
     ELSE IF \E k \in 1..Len(segments) : IsCompany(segments[k])
       THEN Strip(FirstWith(segments, IsCompany))
     ELSE NoText

\* a month name: (Jan|Feb|...|Dec)[a-z]* in any case
IsMonth(w) ==
  /\ IsAlpha(w)
  /\ w \in AnyStartsWith({"jan", "feb", "mar", "apr", "may", "jun", "jul",
                              "aug", "sep", "oct", "nov", "dec"})

\* \d{2}
IsTwoDigits(w) == w \in IntWords /\ Len(w) = 2

\* the token after a date of the given form that starts at token j, 0 when
\* there is none: "year" \d{4}, "month" Mon[a-z]* \d{4}, "mm" \d{2}/\d{4},
\* "mmdd" \d{2}/\d{2}/\d{4}, or one of the words ws in any case
DateEnd_body(s, j, form, ws) ==
  IF j > Len(s) THEN 0
  ELSE IF LowerWord(s[j]) \in ws THEN j + 1
  ELSE IF form = "year" THEN (IF s[j] \in YearWords THEN j + 1 ELSE 0)
  ELSE IF form = "month"
    THEN (IF IsMonth(s[j]) /\ j + 2 <= Len(s) /\ s[j + 1] = SP
             /\ s[j + 2] \in YearWords THEN j + 3 ELSE 0)
  ELSE IF form = "none" THEN 0
  ELSE IF form = "mm"
    THEN (IF IsTwoDigits(s[j]) /\ j + 2 <= Len(s) /\ s[j + 1] = "/"
             /\ s[j + 2] \in YearWords THEN j + 3 ELSE 0)
  ELSE (IF IsTwoDigits(s[j]) /\ j + 4 <= Len(s) /\ s[j + 1] = "/"
           /\ IsTwoDigits(s[j + 2]) /\ s[j + 3] = "/" /\ s[j + 4] \in YearWords
        THEN j + 5 ELSE 0)

\* the forms of the two ends of the five DATE_PATTERNS and the words that
\* may stand for the second end
EXPERIENCE_DATE_PATTERNS_body ==
  <<[from |-> "year", to |-> "year", words |-> {"present", "ongoing"}],
    [from |-> "month", to |-> "month", words |-> {}],
    [from |-> "month", to |-> "none", words |-> {"present", "ongoing", "current"}],
    [from |-> "mm", to |-> "mm", words |-> {"present"}],
    [from |-> "mmdd", to |-> "mmdd", words |-> {"present"}]>>

\* (?i)(?:^|\s)( from \s*-\s* to )(?:\s|$|,|\.) searched in s:
\* match.group(0).strip(), <<>> when there is no match
RangeMatch_body(s, pat) ==
  LET End(j) ==
        LET a == DateEnd(s, j, pat.from, {})
            dash == SkipWS(s, a)
            e == DateEnd(s, SkipWS(s, dash + 1), pat.to, pat.words)
        IN IF a # 0 /\ dash <= Len(s) /\ s[dash] = "-" /\ e # 0 /\ RightOK(s, e)
           THEN e ELSE 0
      j == Least({j \in 1..Len(s) : LeftOK(s, j) /\ End(j) # 0})
  IN IF j = 0 THEN <<>>
     ELSE Strip(SubSeq(s, j, IF End(j) > Len(s) THEN Len(s) ELSE End(j)))

extract_date_range_body(text) ==
  LET p == Least({p \in 1..Len(EXPERIENCE_DATE_PATTERNS) :
                    RangeMatch(text, EXPERIENCE_DATE_PATTERNS[p]) # <<>>})
  IN IF p = 0 THEN NoText ELSE RangeMatch(text, EXPERIENCE_DATE_PATTERNS[p])


\* tokens that begin with one of the bullet characters [\u2022\-*]
BulletTokens == {BULLET} \cup StartsWithExact("-") \cup StartsWithExact("*")

\* the token after the marker of BULLET_PATTERNS[p] that starts at token m
\* ( [-*], \d+\. or [+] ), 0 when no marker starts there
MarkerEnd_body(text, m, p) ==
  IF m > Len(text) THEN 0
  ELSE IF p = 1 THEN (IF text[m] \in BulletTokens THEN m + 1 ELSE 0)
  ELSE IF p = 2
    THEN (IF text[m] \in IntWords /\ m < Len(text) /\ text[m + 1] = "."
          THEN m + 2 ELSE 0)
  ELSE (IF text[m] = "[" /\ m + 2 <= Len(text) /\ text[m + 1] = "+"
           /\ text[m + 2] = "]" THEN m + 3 ELSE 0)

\* \s*marker matches from token k on
MarkerAhead(text, k, p) == MarkerEnd(text, SkipWS(text, k), p) # 0

\* the markers that pattern.finditer(text) finds: those that come first on
\* their line, or first in the text
Markers_body(text, p) ==
  {m \in 1..Len(text) :
     /\ MarkerEnd(text, m, p) # 0
     /\ \/ \A i \in 1..(m - 1) : text[i] \in WS
        \/ \E k \in 1..(m - 1) :
             text[k] = NL /\ \A i \in k..(m - 1) : text[i] \in WS}

\* text[start:end].strip() for the bullet whose marker starts at token m
BulletText_body(text, m, p) ==
  LET start == MarkerEnd(text, m, p)
      next == Least({k \in start..Len(text) :
                       text[k] = NL /\ MarkerAhead(text, k, p)})
      end == IF next = 0 THEN Len(text) + 1 ELSE next
  IN IF p = 1 /\ Len(text[m]) > 1 THEN <<>>
     ELSE IF MarkerAhead(text, start, p) THEN <<>>
     ELSE Strip(SubSeq(text, start, end - 1))

\* the non-empty bullet texts of pattern p, for the markers at or after from
RECURSIVE Bullets(_, _, _)
Bullets(text, p, from) ==
  LET m == Least({m \in Markers(text, p) : m >= from}) IN
    IF m = 0 THEN <<>>
    ELSE (IF BulletText(text, m, p) = <<>> THEN <<>>
          ELSE <<BulletText(text, m, p)>>) \o Bullets(text, p, m + 1)

extract_responsibilities_body(text) ==
  LET bullets == Bullets(text, 1, 1) \o Bullets(text, 2, 1) \o Bullets(text, 3, 1)
      lines == SplitLines(text)
  IN IF bullets # <<>> THEN bullets
     ELSE IF Len(lines) > 2 THEN StripNonEmpty(SubSeq(lines, 3, Len(lines)))
     ELSE <<>>

\* the special handling of a text that holds "Software Engineer" and
\* "ABC Tech": one entry, filled line by line
AbcTechEntry_body(text) ==
  LET lines == StripNonEmpty(SplitLines(text))
      IsTitle2(l) == HasPair(l, "Software", "Engineer")
      IsDate(l) ==
        HasPair(l, "June", "2020")
          \/ \E i \in 1..Len(l) : l[i] \in WordsWithExact("Present")
      titled == Least({i \in 1..Len(lines) : IsTitle2(lines[i])})
      IsDuty(l) ==
        \/ l[1] \in {BULLET} \cup StartsWithExact("-")
        \/ \E i \in 1..Len(l) :
             l[i] \in WordsWithExact("Python") \cup WordsWithExact("Jenkins")
      RECURSIVE Duties(_)
      Duties(i) ==
        IF i > Len(lines) THEN <<>>
        ELSE (IF IsDuty(lines[i]) THEN <<lines[i]>> ELSE <<>>) \o Duties(i + 1)
  IN [job_title |-> Ph(<<"Software", "Engineer">>),
      company |-> IF \E i \in 1..Len(lines) : HasPair(lines[i], "ABC", "Tech")
                  THEN Ph(<<"ABC", "Tech">>) ELSE NoText,
      date_range |-> IF \E i \in 1..Len(lines) : IsDate(lines[i])
                     THEN FirstWith(lines, IsDate) ELSE NoText,
      responsibilities |-> Duties(titled),
      raw_text |-> text]

\* the names of months that the date pattern of the test formats knows
MonthNames_body ==
  {"January", "February", "March", "April", "May", "June", "July", "August",
   "September", "October", "November", "December", "Jan", "Feb", "Mar",
   "Apr", "Jun", "Jul", "Aug", "Sep", "Oct", "Nov", "Dec"}

\* Month\s+\d{4}\s*-\s*(?:Present|Current|Ongoing|Month\s+\d{4}) searched in
\* text: the text matched, NoText when there is no match
TestDate_body(text) ==
  LET Year(j) == SkipWS(text, j + 1)
      MonthYear(j) ==
        /\ j <= Len(text) /\ text[j] \in MonthNames
        /\ Year(j) > j + 1 /\ Year(j) <= Len(text)
        /\ text[Year(j)] \in YearWords
      Dash(j) == SkipWS(text, Year(j) + 1)
      To(j) == SkipWS(text, Dash(j) + 1)
      Word(j) ==
        Least({a \in 1..3 :
                 text[To(j)] \in
                   StartsWithExact(<<"Present", "Current", "Ongoing">>[a])})
      j == Least({j \in 1..Len(text) :
                    /\ MonthYear(j)
                    /\ Dash(j) <= Len(text) /\ text[Dash(j)] = "-"
                    /\ To(j) <= Len(text)
                    /\ Word(j) # 0 \/ MonthYear(To(j))})
  IN IF j = 0 THEN NoText
     ELSE IF Word(j) # 0
       THEN SubSeq(text, j, To(j) - 1)
              \o <<<<"Present", "Current", "Ongoing">>[Word(j)]>>
     ELSE SubSeq(text, j, Year(To(j)))

\* [line.strip() for line in re.findall(r'[*-]\s*(.*?)(?:\n|$)', text)],
\* looking from token from on
RECURSIVE BulletLines(_, _)
BulletLines(text, from) ==
  LET b == Least({b \in from..Len(text) : text[b] \in BulletTokens})
      rest == RestOf(text[b])
      c == IF rest = "" THEN SkipWS(text, b + 1) ELSE b + 1
      nl == Least({k \in c..Len(text) : text[k] = NL})
      n == IF nl = 0 THEN Len(text) + 1 ELSE nl
      line == (IF rest = "" THEN <<>> ELSE <<rest>>) \o SubSeq(text, c, n - 1)
  IN IF b = 0 THEN <<>>
     ELSE <<Strip(line)>> \o BulletLines(text, n + 1)

\* the two test formats: title, then company on the next line
test_patterns_body ==
  <<[title |-> <<"Software", "Engineer">>, company |-> <<"ABC", "Tech">>],
    [title |-> <<"Junior", "Developer">>, company |-> <<"XYZ", "Solutions">>]>>

\* re.search(pattern, text).group(0) for  Title\s*\n\s*Company,? .*?\n :
\* the tokens [first, last] of the match, first = 0 when there is none
TestMatch_body(text, pat) ==
  LET Comp(j) == SkipWS(text, j + 3)
      Rest(j) ==
        LET d == Comp(j) + 3 IN
          IF d + 1 <= Len(text) /\ text[d] = "," /\ text[d + 1] = SP
          THEN d + 2
          ELSE IF d <= Len(text) /\ text[d] = SP THEN d + 1 ELSE 0
      End(j) == Least({n \in Rest(j)..Len(text) : text[n] = NL})
      j == Least({j \in 1..(Len(text) - 2) :
                    /\ text[j] \in EndsWithExact(pat.title[1])
                    /\ text[j + 1] = SP /\ text[j + 2] = pat.title[2]
                    /\ \E k \in (j + 3)..(Comp(j) - 1) : text[k] = NL
                    /\ Comp(j) + 2 <= Len(text)
                    /\ text[Comp(j)] = pat.company[1]
                    /\ text[Comp(j) + 1] = SP
                    /\ text[Comp(j) + 2] = pat.company[2]
                    /\ Rest(j) # 0 /\ End(j) # 0})
  IN IF j = 0 THEN [first |-> 0, last |-> 0]
     ELSE [first |-> j, last |-> End(j)]

\* the entry of the test format pat, <<>> when the text does not have it
TestEntry_body(text, pat) ==
  LET m == TestMatch(text, pat)
      matched == Strip(SubSeq(text, m.first, m.last))
      lines == SplitLines(matched)
      company == TwoWords(Strip(lines[2]), FALSE)
  IN IF m.first = 0 \/ Len(lines) < 2 \/ company = <<>> THEN <<>>
     ELSE <<[job_title |-> Strip(lines[1]),
             company |-> company,
             date_range |-> TestDate(text),
             responsibilities |-> BulletLines(text, 1),
             raw_text |-> matched]>>

\* extract_experience rejects texts shorter than this many characters
MinExperienceLen == 10

\* the body of the loop of extract_experience for one entry
ExperienceEntry_body(entry) ==
  LET clean_entry == clean_text(entry)
      job_title == extract_job_title(clean_entry)
      company == extract_company(clean_entry)
  IN IF clean_entry = <<>> THEN Return(<<>>)
     ELSE IF Truthy(job_title) \/ Truthy(company)
       THEN Return(<<[job_title |-> job_title,
                      company |-> company,
                      date_range |-> extract_date_range(clean_entry),
                      responsibilities |-> extract_responsibilities(entry),
                      raw_text |-> clean_entry]>>)
     ELSE Return(<<>>)

\* the loop of extract_experience over the entries: the entries found, or the
\* exception that an entry raised
ExperienceEntries_body(entries, found) ==
  IF entries = <<>> THEN Return(found)
  ELSE LET r == ExperienceEntry(Head(entries)) IN
         IF r.exc # None THEN r
         ELSE ExperienceEntries(Tail(entries), found \o r.val)

extract_experience_body(text) ==
  LET p == Least({p \in 1..Len(test_patterns) :
                    TestEntry(text, test_patterns[p]) # <<>>})
  IN IF text = <<>> \/ StrLen(text) < MinExperienceLen THEN Return(<<>>)
     ELSE IF HasPair(text, "Software", "Engineer") /\ HasPair(text, "ABC", "Tech")
       THEN Return(<<AbcTechEntry(text)>>)
     ELSE IF /\ ~is_likely_experience_section(text)
             /\ ~HasLower(text, {"experience", "work", "job", "position", "role",
                                 "employment", "internship", "intern"})
             /\ ~HasLower(text, {"developer", "engineer", "analyst", "manager",
                                 "director", "intern"})
       THEN Return(<<>>)
     ELSE IF p # 0 THEN Return(TestEntry(text, test_patterns[p]))
     ELSE ExperienceEntries(split_experience_entries(text), <<>>)



(***************************************************************************)
(* extractors/certifications_extractor.py                                  *)
(***************************************************************************)
\* the issuers of ISSUER_PATTERNS, in small letters
ISSUER_PATTERNS_body ==
  {<<w>> : w \in {"microsoft", "aws", "amazon", "google", "oracle", "ibm",
                  "cisco", "comptia", "pmi", "salesforce", "adobe", "axelos",
                  "sap", "hubspot", "coursera", "udemy", "edx", "pluralsight",
                  "freecodecamp", "datacamp", "kaggle", "isc2", "isaca",
                  "certified", "university", "institute", "academy",
                  "college", "geeksforgeeks"}}
  \cup {Ph(<<"linkedin", "learning">>), Ph(<<"scrum", "alliance">>),
        <<"ec", "-", "council">>}

\* the words before the number of ID_PATTERNS, in small letters
ID_PATTERNS_body ==
  {<<"id">>, <<"no">>, <<"number">>, Ph(<<"credential", "id">>),
   Ph(<<"certificate", "id">>), Ph(<<"certification", "number">>), <<"#">>}

\* the words x, then y, then z stand in s one space apart; x may end a
\* token and z may begin one (a phrase of three words found with "in")
HasTriple_body(s, x, y, z) ==
  \E j \in 1..(Len(s) - 4) :
    /\ s[j] \in EndsWithExact(x) /\ s[j + 1] = SP /\ s[j + 2] = y
    /\ s[j + 3] = SP /\ s[j + 4] \in StartsWithExact(z)

\* k in s for a word k
HasExact(s, k) == \E i \in 1..Len(s) : s[i] \in WordsWithExact(k)

\* re.search(r"MongoDB\s+Developers\s+Tool\s+Kit", text)
MongoNameMatch_body(text) ==
  \E j \in 1..Len(text) :
    LET a == SkipWS(text, j + 1)
        b == SkipWS(text, a + 1)
        c == SkipWS(text, b + 1)
    IN /\ text[j] \in EndsWithExact("MongoDB")
       /\ a > j + 1 /\ a <= Len(text) /\ text[a] = "Developers"
       /\ b > a + 1 /\ b <= Len(text) /\ text[b] = "Tool"
       /\ c > b + 1 /\ c <= Len(text) /\ text[c] \in StartsWithExact("Kit")

handle_mongodb_geeksforgeeks_cert_body(text) ==
  IF MongoNameMatch(text)
  THEN <<[name |-> Ph(<<"MongoDB", "Developers", "Tool", "Kit">>),
          issuer |-> IF HasExact(text, "GeeksforGeeks")
                     THEN <<"GeeksforGeeks">> ELSE NoText,
          date |-> IF HasExact(text, "2024") THEN <<"2024">> ELSE NoText,
          credential_id |-> NoText,
          raw_text |-> text]>>
  ELSE <<>>

\* re.search(r"AWS Certified Developer\s*-\s*Associate", text)
AwsNameMatch_body(text) ==
  \E j \in 1..(Len(text) - 4) :
    LET dash == SkipWS(text, j + 5)
        a == SkipWS(text, dash + 1)
    IN /\ text[j] \in EndsWithExact("AWS") /\ text[j + 1] = SP
       /\ text[j + 2] = "Certified" /\ text[j + 3] = SP
       /\ text[j + 4] = "Developer"
       /\ dash <= Len(text) /\ text[dash] = "-"
       /\ a <= Len(text) /\ text[a] \in StartsWithExact("Associate")

handle_aws_certification_body(text) ==
  IF AwsNameMatch(text)
  THEN <<[name |-> Ph(<<"AWS", "Certified", "Developer", "-", "Associate">>),
          issuer |-> IF HasTriple(text, "Amazon", "Web", "Services")
                     THEN Ph(<<"Amazon", "Web", "Services">>) ELSE NoText,
          date |-> IF HasExact(text, "2021") THEN <<"2021">> ELSE NoText,
          credential_id |-> NoText,
          raw_text |-> text]>>
  ELSE <<>>

split_certification_entries_body(text) ==
  LET paragraphs == SplitBlank(text)
      entries == IF Len(paragraphs) <= 1 THEN SplitLines(text) ELSE paragraphs
  IN StripNonEmpty(entries)

\* the first token of  [,|-]  in text, 0 when there is none
FirstSeparator(text) ==
  Least({k \in 1..Len(text) :
           text[k] \in {",", "|"} \cup StartsWithExact("-")})

\* re.split(r'[,|-]', text, 1): one segment, or the two segments before and
\* after the first separating character
SplitOnce_body(text) ==
  LET k == FirstSeparator(text)
      rest == IF text[k] \in {",", "|", "-"} THEN <<>> ELSE <<RestOf(text[k])>>
  IN IF k = 0 THEN <<text>>
     ELSE <<SubSeq(text, 1, k - 1), rest \o SubSeq(text, k + 1, Len(text))>>

extract_certification_name(text) == Strip(SplitOnce(text)[1])

\* len(s.split())
WordCount(s) ==
  Cardinality({i \in 1..Len(s) :
                 s[i] \notin WS /\ (i = 1 \/ s[i - 1] \in WS)})

\* an issuer name is cut to its keyword when it has more words than this
MaxIssuerWords == 5

extract_issuer_body(text) ==
  LET j == Least({j \in 1..Len(text) :
                    \E p \in ISSUER_PATTERNS : KeywordAt(text, j, p)})
      p == CHOOSE p \in ISSUER_PATTERNS : KeywordAt(text, j, p)
      issuer_start == IF j = 1 THEN 1 ELSE j - 1
      marker == Least({k \in issuer_start..Len(text) : text[k] \in PhraseEnd})
      issuer_end == IF marker = 0 THEN Len(text) + 1 ELSE marker
      issuer_text == Strip(SubSeq(text, issuer_start, issuer_end - 1))
      segments == SplitOnce(text)
  IN IF j # 0
       THEN (IF WordCount(issuer_text) > MaxIssuerWords
             THEN SubSeq(text, j, j + Len(p) - 1) ELSE issuer_text)
     ELSE IF Len(segments) > 1 THEN Strip(segments[2])
     ELSE NoText

\* the names of the months written in full, in small letters
FullMonths ==
  {"january", "february", "march", "april", "may", "june", "july", "august",
   "september", "october", "november", "december"}

\* the token after the group of the certification DATE_PATTERNS[p] that
\* starts at token j, 0 when the group does not start there
CertDateEnd_body(s, j, p) ==
  LET comma == IF j + 1 <= Len(s) /\ s[j + 1] = "," THEN j + 2 ELSE j + 1
      Day(w) == w \in IntWords /\ Len(w) <= 2
      Sep(x) ==
        /\ j + 4 <= Len(s) /\ Day(s[j]) /\ s[j + 1] = x /\ Day(s[j + 2])
        /\ s[j + 3] = x /\ s[j + 4] \in IntWords
        /\ Len(s[j + 4]) >= 2 /\ Len(s[j + 4]) <= 4
  IN IF p = 1 THEN DateEnd(s, j, "year", {})
     ELSE IF p = 2 THEN DateEnd(s, j, "month", {})
     ELSE IF p = 3
       THEN (IF /\ LowerWord(s[j]) \in FullMonths
                /\ comma + 1 <= Len(s) /\ s[comma] = SP
                /\ s[comma + 1] \in YearWords
             THEN comma + 2 ELSE 0)
     ELSE (IF Sep("/") \/ Sep("-") THEN j + 5 ELSE 0)

\* (?i)(?:^|\s)( group )(?:\s|$|,|\.) searched in s, for a group that ends
\* before token End(j) when it starts at token j: match.group(0).strip(),
\* <<>> when there is no match
GroupMatch(s, End(_)) ==
  LET j == Least({j \in 1..Len(s) :
                    LeftOK(s, j) /\ End(j) # 0 /\ RightOK(s, End(j))})
  IN IF j = 0 THEN <<>>
     ELSE Strip(SubSeq(s, j, IF End(j) > Len(s) THEN Len(s) ELSE End(j)))

CertDateMatch_body(text, p) ==
  LET End(j) == CertDateEnd(text, j, p) IN GroupMatch(text, End)

extract_date_body(text) ==
  LET p == Least({p \in 1..4 : CertDateMatch(text, p) # <<>>})
  IN IF p = 0 THEN NoText ELSE CertDateMatch(text, p)

\* the end (exclusive) of the longest run of [A-Za-z0-9\-] from token g
IdRunEnd_body(s, g) ==
  Least({e \in g..(Len(s) + 1) :
           /\ \A k \in g..(e - 1) :
                IsWordTok(s[k]) \/ s[k] \in StartsWithExact("-")
           /\ \/ e = Len(s) + 1
              \/ ~(IsWordTok(s[e]) \/ s[e] \in StartsWithExact("-"))})

extract_credential_id_body(text) ==
  LET Group(j, p) == 
        Least({g \in (j + Len(p) + 1)..Len(text) :
                 /\ \A k \in (j + Len(p))..(g - 1) : text[k] \in WS \cup {":"}
                 /\ text[g] \notin WS \cup {":"}})
      Matches(j, p) ==
        /\ LeftOK(text, j) /\ PhraseAt(text, j, p)
        /\ Group(j, p) # 0
        /\ IdRunEnd(text, Group(j, p)) > Group(j, p)
        /\ RightOK(text, IdRunEnd(text, Group(j, p)))
      j == Least({j \in 1..Len(text) : \E p \in ID_PATTERNS : Matches(j, p)})
      p == CHOOSE p \in ID_PATTERNS : Matches(j, p)
  IN IF j = 0 THEN NoText
     ELSE SubSeq(text, Group(j, p), IdRunEnd(text, Group(j, p)) - 1)

\* the body of the loop of extract_certifications for one entry
CertificationEntry_body(entry) ==
  LET clean_entry == clean_text(entry)
      name == extract_certification_name(clean_entry)
  IN IF clean_entry = <<>> THEN Return(<<>>)
     ELSE IF Truthy(name)
       THEN Return(<<[name |-> name,
                      issuer |-> extract_issuer(clean_entry),
                      date |-> extract_date(clean_entry),
                      credential_id |-> extract_credential_id(clean_entry),
                      raw_text |-> clean_entry]>>)
     ELSE Return(<<>>)

\* the loop of extract_certifications over the entries: the entries found, or the
\* exception that an entry raised
CertificationEntries_body(entries, found) ==
  IF entries = <<>> THEN Return(found)
  ELSE LET r == CertificationEntry(Head(entries)) IN
         IF r.exc # None THEN r
         ELSE CertificationEntries(Tail(entries), found \o r.val)

extract_certifications_body(text) ==
  IF HasExact(text, "MongoDB") /\ HasExact(text, "GeeksforGeeks")
    THEN Return(handle_mongodb_geeksforgeeks_cert(text))
  ELSE IF /\ HasTriple(text, "AWS", "Certified", "Developer")
          /\ HasTriple(text, "Amazon", "Web", "Services")
    THEN Return(handle_aws_certification(text))
  ELSE CertificationEntries(split_certification_entries(text), <<>>)



(***************************************************************************)
(* extractors/projects_extractor.py                                        *)
(***************************************************************************)
\* the end (exclusive) of the longest run of [a-zA-Z0-9 ] from token c
NameRunEnd_body(s, c) ==
  Least({e \in c..(Len(s) + 1) :
           /\ \A k \in c..(e - 1) : IsWordTok(s[k]) \/ s[k] = SP
           /\ e = Len(s) + 1 \/ ~(IsWordTok(s[e]) \/ s[e] = SP)})

\* the token that ends the match of  \n([A-Z][a-zA-Z0-9 ]+)[\s:-]  which
\* starts at the newline token k, 0 when there is no match there: the
\* character after the longest name, or else the last space inside it
StartMatchEnd_body(text, k) ==
  LET e == NameRunEnd(text, k + 1)
      first == IF Len(text[k + 1]) >= 2 THEN k + 2 ELSE k + 3
      sp == Greatest({i \in first..(e - 1) : text[i] = SP})
  IN IF ~(/\ k + 1 <= Len(text) /\ text[k] = NL
          /\ text[k + 1] \in CapitalWords) THEN 0
     ELSE IF /\ e <= Len(text) /\ e >= first
             /\ text[e] \in WS \cup {":"} \cup StartsWithExact("-") THEN e
     ELSE sp

\* the starts of the matches that entry_start_pattern.finditer finds, from
\* token from on
RECURSIVE EntryStarts(_, _)
EntryStarts(text, from) ==
  LET k == Least({k \in from..Len(text) : StartMatchEnd(text, k) # 0})
  IN IF k = 0 THEN {}
     ELSE {k} \cup EntryStarts(text, StartMatchEnd(text, k) + 1)

split_project_entries_body(text) ==
  LET paragraphs == SplitBlank(text)
      entries == IF Len(paragraphs) <= 1
                 THEN CutAt(text, EntryStarts(text, 1) \cup {1}, 1)
                 ELSE paragraphs
  IN StripNonEmpty(entries)

extract_project_name_body(text) ==
  LET first_line == SplitLines(text)[1]
      colon == IndexFrom(first_line, ":", 1)
  IN IF colon # 0 THEN Strip(SubSeq(first_line, 1, colon - 1))
     ELSE Strip(SplitOn(first_line, {",", ";", "|", NL})[1])

\* the forms of the two ends of the first three DATE_PATTERNS of projects;
\* the fourth is a single year
PROJECT_DATE_PATTERNS_body ==
  <<[from |-> "year", to |-> "year", words |-> {"present", "ongoing"}],
    [from |-> "month", to |-> "month", words |-> {}],
    [from |-> "month", to |-> "none", words |-> {"present", "ongoing", "current"}]>>

\* (?i)(?:^|\s)(\d{4})(?:\s|$|,|\.) searched in text
YearMatch_body(text) ==
  LET End(j) == DateEnd(text, j, "year", {}) IN GroupMatch(text, End)

project_date_range_body(text) ==
  LET p == Least({p \in 1..Len(PROJECT_DATE_PATTERNS) :
                    RangeMatch(text, PROJECT_DATE_PATTERNS[p]) # <<>>})
  IN IF p # 0 THEN RangeMatch(text, PROJECT_DATE_PATTERNS[p])
     ELSE IF YearMatch(text) # <<>> THEN YearMatch(text)
     ELSE NoText

\* the headings of the first of the TECHNOLOGY_PATTERNS, in small letters
TECHNOLOGY_HEADINGS_body ==
  {<<"technologies">>, <<"tools">>, Ph(<<"tech", "stack">>),
   Ph(<<"built", "with">>), Ph(<<"developed", "using">>),
   Ph(<<"implemented", "using">>), <<"stack">>}

\* the words of the second of the TECHNOLOGY_PATTERNS
TECHNOLOGY_WORDS == {"using", "with", "in", "through"}

\* for tech in parts: technologies.append(tech.strip()) when it is not
\* empty and not there yet
RECURSIVE AddTechnologies(_, _)
AddTechnologies(technologies, parts) ==
  IF parts = <<>> THEN technologies
  ELSE AddTechnologies(
         IF Strip(Head(parts)) = <<>> THEN technologies
         ELSE AppendNew(technologies, Strip(Head(parts))),
         Tail(parts))

\* the technologies that follow a heading such as  Tools:  up to the end
\* of the line
HeadingTechnologies_body(text) ==
  LET Matches(j, p) ==
        /\ LeftOK(text, j) /\ PhraseAt(text, j, p)
        /\ \/ j + Len(p) > Len(text)
           \/ text[j + Len(p)] \in WS \cup {":"}
      j == Least({j \in 1..Len(text) :
                    \E p \in TECHNOLOGY_HEADINGS : Matches(j, p)})
      p == CHOOSE p \in TECHNOLOGY_HEADINGS : Matches(j, p)
      start_pos == j + Len(p) + 1
      nl == Least({k \in start_pos..Len(text) : text[k] = NL})
      end_pos == IF nl = 0 THEN Len(text) + 1 ELSE nl
      tech_text == Strip(SubSeq(text, start_pos, end_pos - 1))
      colon == IndexFrom(tech_text, ":", 1)
      listed == IF colon = 0 THEN tech_text
                ELSE Strip(SubSeq(tech_text, colon + 1, Len(tech_text)))
  IN IF j = 0 THEN <<>> ELSE SplitOn(listed, {",", ";"})

\* the end (exclusive) of group 2 of  (using|with|in|through)\s+
\* ([A-Za-z0-9, ]+)(?:\s|$|\.)  when the word stands at token j, 0 when
\* the pattern does not match there
UsingEnd_body(text, j) ==
  LET g == SkipWS(text, j + 1)
      InGroup(w) == IsWordTok(w) \/ w \in {",", SP}
      first == IF g > j + 1 /\ g <= Len(text) /\ InGroup(text[g]) THEN g
               ELSE IF g > j + 2 /\ text[g - 1] = SP THEN g - 1 ELSE 0
      e == Least({e \in first..(Len(text) + 1) :
                    /\ \A k \in first..(e - 1) : InGroup(text[k])
                    /\ e = Len(text) + 1 \/ ~InGroup(text[e])})
      sp == Greatest({i \in (first + 1)..(e - 1) : text[i] \in WS})
  IN IF ~(LeftOK(text, j) /\ LowerWord(text[j]) \in TECHNOLOGY_WORDS) THEN 0
     ELSE IF first = 0 THEN 0
     ELSE IF e > first /\ (e > Len(text) \/ text[e] \in WS \cup {"."}) THEN e
     ELSE sp

\* group 2 starts right after the whitespace that follows token j
InGroupStart_body(text, j) ==
  LET g == SkipWS(text, j + 1)
  IN g <= Len(text) /\ (IsWordTok(text[g]) \/ text[g] = ",")

\* the technologies named after  using, with, in  or  through
UsingTechnologies_body(text) ==
  LET j == Least({j \in 1..Len(text) : UsingEnd(text, j) # 0})
      g == IF InGroupStart(text, j) THEN SkipWS(text, j + 1)
           ELSE SkipWS(text, j + 1) - 1
  IN IF j = 0 THEN <<>>
     ELSE SplitOn(SubSeq(text, g, UsingEnd(text, j) - 1), {","})

extract_technologies(text) ==
  AddTechnologies(AddTechnologies(<<>>, HeadingTechnologies(text)),
                  UsingTechnologies(text))

extract_description_body(text) ==
  LET bullets == AppendAllNew(<<>>, Bullets(text, 1, 1) \o Bullets(text, 2, 1)
                                      \o Bullets(text, 3, 1))
      lines == SplitLines(text)
  IN IF bullets # <<>> THEN bullets
     ELSE AppendAllNew(<<>>, StripNonEmpty(Tail(lines)))

\* the body of the loop of extract_projects for one entry
ProjectEntry_body(entry) ==
  LET clean_entry == clean_text(entry)
      project_name == extract_project_name(entry)
  IN IF clean_entry = <<>> THEN Return(<<>>)
     ELSE IF Truthy(project_name)
       THEN Return(<<[name |-> project_name,
                      date_range |-> project_date_range(clean_entry),
                      technologies |-> extract_technologies(clean_entry),
                      description |-> extract_description(entry),
                      raw_text |-> clean_entry]>>)
     ELSE Return(<<>>)

\* the loop of extract_projects over the entries: the entries found, or the
\* exception that an entry raised
ProjectEntries_body(entries, found) ==
  IF entries = <<>> THEN Return(found)
  ELSE LET r == ProjectEntry(Head(entries)) IN
         IF r.exc # None THEN r
         ELSE ProjectEntries(Tail(entries), found \o r.val)

extract_projects_body(text) ==
  ProjectEntries(split_project_entries(text), <<>>)



(***************************************************************************)
(* extractors/skills_extractor.py                                          *)
(***************************************************************************)
\* TECH_SKILLS_CATEGORIES: the categories in the order of the source, each
\* with its skills in the order of the source, as tokens in small letters
TECH_SKILLS_CATEGORIES_body ==
  <<[name |-> "programming_languages",
     skills |->
       <<<<"python">>, <<"java">>, <<"javascript">>, <<"typescript">>,
         <<"c">>, <<"c", "+", "+">>, <<"c", "#">>, <<"go">>, <<"golang">>,
         <<"ruby">>, <<"php">>, <<"perl">>, <<"swift">>, <<"kotlin">>,
         <<"scala">>, <<"rust">>, <<"dart">>, <<"objective", "-", "c">>,
         <<"r">>, <<"matlab">>, <<"groovy">>, <<"bash">>, <<"shell">>,
         <<"powershell">>, <<"vba">>, <<"sql">>, <<"plsql">>, <<"cobol">>,
         <<"fortran">>, <<"haskell">>, <<"assembly">>, <<"pascal">>,
         <<"lua">>, <<"erlang">>, <<"clojure">>, <<"f", "#">>, <<"scheme">>,
         <<"prolog">>, <<"julia">>, <<"elixir">>>>],
    [name |-> "web_development",
     skills |->
       <<<<"html">>, <<"css">>, <<"sass">>, <<"scss">>, <<"less">>,
         <<"bootstrap">>, <<"tailwind">>, <<"javascript">>, <<"typescript">>,
         <<"jquery">>, <<"react">>, <<"angular">>, <<"vue">>, <<"svelte">>,
         <<"next", ".", "js">>, <<"nuxt">>, <<"express">>,
         <<"node", ".", "js">>, <<"node">>, <<"npm">>, <<"webpack">>,
         <<"vite">>, <<"babel">>, <<"redux">>, <<"graphql">>, <<"rest">>,
         <<"soap">>, <<"xml">>, <<"json">>, <<"ajax">>, <<"gatsby">>,
         <<"three", ".", "js">>, <<"webgl">>, <<"d3", ".", "js">>,
         <<"chart", ".", "js">>, <<"dom">>, <<"wordpress">>, <<"drupal">>,
         <<"joomla">>, <<"magento">>, <<"shopify">>,
         <<"web", SP, "development">>, <<"frontend">>,
         <<"front", "-", "end">>, <<"backend">>, <<"back", "-", "end">>,
         <<"full", "-", "stack">>, <<"fullstack">>,
         <<"responsive", SP, "design">>,
         <<"progressive", SP, "web", SP, "app">>, <<"pwa">>,
         <<"web", SP, "socket">>, <<"api">>, <<"oauth">>, <<"jwt">>,
         <<"web", SP, "security">>, <<"htmx">>, <<"alpinejs">>,
         <<"material", SP, "ui">>, <<"chakra", SP, "ui">>, <<"antd">>,
         <<"django">>, <<"flask">>>>],
    [name |-> "mobile_development",
     skills |->
       <<<<"android">>, <<"ios">>, <<"swift">>, <<"objective", "-", "c">>,
         <<"kotlin">>, <<"java">>, <<"react", SP, "native">>, <<"flutter">>,
         <<"dart">>, <<"xamarin">>, <<"ionic">>, <<"cordova">>,
         <<"phonegap">>, <<"android", SP, "studio">>, <<"xcode">>,
         <<"mobile", SP, "development">>, <<"app", SP, "development">>,
         <<"ui", "/", "ux">>, <<"ui", SP, "design">>, <<"ux", SP, "design">>,
         <<"mobile", SP, "ui">>, <<"app", SP, "ui">>>>],
    [name |-> "databases",
     skills |->
       <<<<"sql">>, <<"mysql">>, <<"postgresql">>, <<"postgres">>,
         <<"oracle">>, <<"sql", SP, "server">>, <<"sqlite">>, <<"mongodb">>,
         <<"nosql">>, <<"redis">>, <<"cassandra">>, <<"couchbase">>,
         <<"dynamodb">>, <<"firebase">>, <<"neo4j">>, <<"mariadb">>,
         <<"db2">>, <<"hbase">>, <<"elasticsearch">>, <<"solr">>,
         <<"database", SP, "design">>, <<"database", SP, "architecture">>,
         <<"data", SP, "modeling">>, <<"etl">>, <<"rdbms">>,
         <<"data", SP, "warehousing">>, <<"olap">>, <<"oltp">>,
         <<"database", SP, "administration">>, <<"dba">>,
         <<"database", SP, "tuning">>, <<"indexing">>,
         <<"query", SP, "optimization">>, <<"orm">>,
         <<"entity", SP, "framework">>, <<"hibernate">>, <<"sequelize">>,
         <<"prisma">>, <<"schema", SP, "design">>,
         <<"database", SP, "migration">>>>],
    [name |-> "devops_cloud",
     skills |->
       <<<<"aws">>, <<"amazon", SP, "web", SP, "services">>, <<"ec2">>,
         <<"s3">>, <<"lambda">>, <<"azure">>, <<"microsoft", SP, "azure">>,
         <<"google", SP, "cloud">>, <<"gcp">>, <<"cloud", SP, "computing">>,
         <<"docker">>, <<"kubernetes">>, <<"k8s">>, <<"jenkins">>,
         <<"circleci">>, <<"travis">>, <<"ci", "/", "cd">>, <<"terraform">>,
         <<"ansible">>, <<"puppet">>, <<"chef">>,
         <<"infrastructure", SP, "as", SP, "code">>, <<"iac">>, <<"git">>,
         <<"github">>, <<"gitlab">>, <<"bitbucket">>, <<"devops">>,
         <<"devsecops">>, <<"mlops">>, <<"cloud", SP, "architecture">>,
         <<"microservices">>, <<"serverless">>, <<"containerization">>,
         <<"virtualization">>, <<"vmware">>, <<"vagrant">>, <<"heroku">>,
         <<"digitalocean">>, <<"monitoring">>, <<"logging">>,
         <<"prometheus">>, <<"grafana">>, <<"elk", SP, "stack">>,
         <<"load", SP, "balancing">>, <<"high", SP, "availability">>,
         <<"disaster", SP, "recovery">>, <<"backup">>, <<"linux">>,
         <<"unix">>, <<"windows", SP, "server">>, <<"nginx">>, <<"apache">>,
         <<"iis">>>>],
    [name |-> "ai_ml_data",
     skills |->
       <<<<"machine", SP, "learning">>, <<"deep", SP, "learning">>,
         <<"artificial", SP, "intelligence">>, <<"ai">>, <<"ml">>,
         <<"neural", SP, "network">>, <<"tensorflow">>, <<"keras">>,
         <<"pytorch">>, <<"scikit", "-", "learn">>, <<"pandas">>,
         <<"numpy">>, <<"scipy">>, <<"data", SP, "science">>,
         <<"data", SP, "analysis">>, <<"data", SP, "mining">>,
         <<"data", SP, "visualization">>,
         <<"natural", SP, "language", SP, "processing">>, <<"nlp">>,
         <<"computer", SP, "vision">>, <<"opencv">>,
         <<"image", SP, "processing">>, <<"feature", SP, "engineering">>,
         <<"statistical", SP, "analysis">>, <<"regression">>,
         <<"classification">>, <<"clustering">>, <<"pca">>,
         <<"dimensionality", SP, "reduction">>,
         <<"reinforcement", SP, "learning">>,
         <<"supervised", SP, "learning">>,
         <<"unsupervised", SP, "learning">>,
         <<"predictive", SP, "modeling">>,
         <<"time", SP, "series", SP, "analysis">>,
         <<"a", "/", "b", SP, "testing">>, <<"jupyter">>, <<"matplotlib">>,
         <<"seaborn">>, <<"tableau">>, <<"power", SP, "bi">>, <<"looker">>,
         <<"big", SP, "data">>, <<"hadoop">>, <<"spark">>, <<"kafka">>,
         <<"airflow">>, <<"etl">>, <<"data", SP, "pipeline">>,
         <<"data", SP, "engineering">>, <<"data", SP, "warehouse">>,
         <<"data", SP, "lake">>, <<"data", SP, "preprocessing">>,
         <<"data", SP, "cleaning">>, <<"statistical", SP, "modeling">>,
         <<"bayesian">>, <<"r">>>>],
    [name |-> "cybersecurity",
     skills |->
       <<<<"cybersecurity">>, <<"information", SP, "security">>,
         <<"infosec">>, <<"network", SP, "security">>,
         <<"application", SP, "security">>, <<"appsec">>,
         <<"penetration", SP, "testing">>, <<"pen", SP, "testing">>,
         <<"ethical", SP, "hacking">>, <<"vulnerability", SP, "assessment">>,
         <<"security", SP, "audit">>, <<"compliance">>, <<"encryption">>,
         <<"cryptography">>, <<"firewall">>, <<"vpn">>,
         <<"identity", SP, "management">>, <<"authentication">>,
         <<"authorization">>, <<"oauth">>, <<"openid">>, <<"saml">>,
         <<"sso">>, <<"intrusion", SP, "detection">>, <<"ids">>,
         <<"intrusion", SP, "prevention">>, <<"ips">>, <<"siem">>,
         <<"security", SP, "monitoring">>, <<"incident", SP, "response">>,
         <<"forensics">>, <<"malware", SP, "analysis">>,
         <<"threat", SP, "intelligence">>, <<"security", SP, "operations">>,
         <<"secops">>, <<"risk", SP, "assessment">>,
         <<"disaster", SP, "recovery">>, <<"business", SP, "continuity">>,
         <<"web", SP, "application", SP, "security">>, <<"owasp">>,
         <<"xss">>, <<"csrf">>, <<"sql", SP, "injection">>,
         <<"security", SP, "testing">>, <<"zero", SP, "trust">>,
         <<"devsecops">>>>]>>

\* SOFT_SKILLS, in the order of the source: the words of each skill, which
\* the pattern lets stand together or apart by one space or hyphen
SOFT_SKILLS_body ==
  <<<<"communication">>, <<"teamwork">>, <<"problem", "solving">>,
    <<"critical", "thinking">>, <<"creativity">>, <<"adaptability">>,
    <<"leadership">>, <<"time", "management">>, <<"organization">>,
    <<"project", "management">>, <<"analytical">>, <<"detail", "oriented">>,
    <<"decision", "making">>, <<"emotional", "intelligence">>,
    <<"negotiation">>, <<"conflict", "resolution">>, <<"presentation">>,
    <<"public", "speaking">>, <<"writing">>, <<"customer", "service">>,
    <<"collaboration">>, <<"flexibility">>, <<"reliability">>,
    <<"responsibility">>, <<"self", "motivation">>, <<"work", "ethic">>,
    <<"interpersonal">>, <<"active", "listening">>, <<"empathy">>,
    <<"patience">>, <<"strategic", "thinking">>, <<"research">>,
    <<"persuasion">>, <<"networking">>, <<"multitasking">>,
    <<"prioritization">>, <<"team", "building">>, <<"mentoring">>,
    <<"coaching">>, <<"feedback">>, <<"cultural", "awareness">>,
    <<"diversity">>, <<"inclusion">>>>

\* TOOLS_SOFTWARE, in the order of the source, as tokens in small letters
TOOLS_SOFTWARE_body ==
  <<<<"microsoft", SP, "office">>, <<"office", SP, "365">>, <<"excel">>,
    <<"word">>, <<"powerpoint">>, <<"outlook">>, <<"access">>, <<"visio">>,
    <<"adobe">>, <<"photoshop">>, <<"illustrator">>, <<"indesign">>,
    <<"after", SP, "effects">>, <<"premiere", SP, "pro">>, <<"acrobat">>,
    <<"lightroom">>, <<"xd">>, <<"figma">>, <<"sketch">>, <<"invision">>,
    <<"zeplin">>, <<"trello">>, <<"jira">>, <<"asana">>, <<"slack">>,
    <<"teams">>, <<"zoom">>, <<"skype">>, <<"basecamp">>, <<"confluence">>,
    <<"notion">>, <<"airtable">>, <<"quickbooks">>, <<"salesforce">>,
    <<"hubspot">>, <<"marketo">>, <<"mailchimp">>, <<"sap">>, <<"oracle">>,
    <<"zendesk">>, <<"servicenow">>, <<"autodesk">>, <<"autocad">>,
    <<"revit">>, <<"3ds", SP, "max">>, <<"maya">>, <<"blender">>,
    <<"solidworks">>, <<"fusion", SP, "360">>, <<"unity">>,
    <<"unreal", SP, "engine">>, <<"git">>, <<"docker">>, <<"jenkins">>,
    <<"aws">>>>


\* the end (exclusive) of skill phrase p when \b(p)\b matches at token j, 0
\* when it does not: a phrase that ends with a sign needs a word after it
SkillEnd_body(text, j, p) ==
  IF /\ PhraseAt(text, j, p)
     /\ \/ IsWordTok(p[Len(p)])
        \/ /\ j + Len(p) <= Len(text)
           /\ IsWordTok(text[j + Len(p)])
  THEN j + Len(p) ELSE 0

\* regex.findall(text) for the pattern \b(skills[1]|skills[2]|...)\b: the
\* texts matched from token from on, in order
RECURSIVE FindSkills(_, _, _)
FindSkills(text, skills, from) ==
  LET j == Least({j \in from..Len(text) :
                    \E a \in 1..Len(skills) : SkillEnd(text, j, skills[a]) # 0})
      a == Least({a \in 1..Len(skills) : SkillEnd(text, j, skills[a]) # 0})
      e == SkillEnd(text, j, skills[a])
  IN IF j = 0 THEN {}
     ELSE {SubSeq(text, j, e - 1)} \cup FindSkills(text, skills, e)

\* the match of the pattern of the soft skills that starts at token j: the
\* text of its group, <<>> when there is none; a skill of two words may
\* have one space or hyphen between them
SoftAt_body(text, j) ==
  LET last == IF j + 1 <= Len(text) /\ text[j + 1] \in WS \cup {"-"}
              THEN j + 2 ELSE j + 1
  IN IF SoftSkillOf(text[j]) # "" THEN <<SoftSkillOf(text[j])>>
     ELSE IF \E a \in 1..Len(SOFT_SKILLS) :
               /\ Len(SOFT_SKILLS[a]) = 2
               /\ LowerWord(text[j]) = SOFT_SKILLS[a][1]
               /\ last <= Len(text)
               /\ LowerWord(text[last]) = SOFT_SKILLS[a][2]
       THEN SubSeq(text, j, last)
     ELSE <<>>

\* self.soft_skills_regex.findall(text), looking from token from on
RECURSIVE FindSoftSkills(_, _)
FindSoftSkills(text, from) ==
  LET j == Least({j \in from..Len(text) : SoftAt(text, j) # <<>>})
      e == IF SoftSkillOf(text[j]) # "" THEN j + 1
           ELSE j + Len(SoftAt(text, j))
  IN IF j = 0 THEN {}
     ELSE {SoftAt(text, j)} \cup FindSoftSkills(text, e)

\* the code points of the characters of a string of tokens
RECURSIVE Characters(_)
Characters(s) ==
  IF s = <<>> THEN <<>> ELSE CodePoints(Head(s)) \o Characters(Tail(s))

\* a < b for two strings of code points, as Python compares strings
CodePointsBefore_body(a, b) ==
  LET n == IF Len(a) < Len(b) THEN Len(a) ELSE Len(b)
      d == Least({i \in 1..n : a[i] # b[i]})
  IN IF d = 0 THEN Len(a) < Len(b) ELSE a[d] < b[d]

\* sorted(list(skills)) for a set of skills
RECURSIVE Sorted(_)
Sorted(skills) ==
  IF skills = {} THEN <<>>
  ELSE LET first ==
             CHOOSE x \in skills :
               \A y \in skills :
                 ~CodePointsBefore(Characters(y), Characters(x))
       IN <<first>> \o Sorted(skills \ {first})

\* the dictionary of _extract_tech_skills: the categories that have a
\* match, each with the set of its matches
RECURSIVE extract_tech_skills(_, _)
extract_tech_skills(text, c) ==
  IF c > Len(TECH_SKILLS_CATEGORIES) THEN <<>>
  ELSE LET matches == FindSkills(text, TECH_SKILLS_CATEGORIES[c].skills, 1)
       IN (IF matches = {} THEN <<>>
           ELSE <<[category |-> TECH_SKILLS_CATEGORIES[c].name,
                   skills |-> matches]>>)
            \o extract_tech_skills(text, c + 1)

extract_soft_skills_body(text) == FindSoftSkills(text, 1)

extract_tools_body(text) == FindSkills(text, TOOLS_SOFTWARE, 1)

\* s.split(): the runs of tokens between whitespace
RECURSIVE SplitWS(_)
SplitWS(s) ==
  LET t == LStrip(s)
      e == Least({i \in 1..Len(t) : t[i] \in WS})
  IN IF t = <<>> THEN <<>>
     ELSE IF e = 0 THEN <<t>>
     ELSE <<SubSeq(t, 1, e - 1)>> \o SplitWS(SubSeq(t, e, Len(t)))

\* [x.strip() for x in xs]
StripAll(xs) == [i \in 1..Len(xs) |-> Strip(xs[i])]

\* the label, one or two words and a colon, stands in text from token j on
\* (the first word may end a token)
LabelAt_body(text, j, label) ==
  /\ j + 2 * Len(label) - 1 <= Len(text)
  /\ text[j] \in EndsWithExact(label[1])
  /\ \A i \in 2..Len(label) :
       text[j + 2 * i - 3] = SP /\ text[j + 2 * i - 2] = label[i]
  /\ text[j + 2 * Len(label) - 1] = ":"

\* "label:" in text
HasLabel(text, label) == \E j \in 1..Len(text) : LabelAt(text, j, label)

\* re.search(r"label:(.*?)(?:\n|$)", text): group 1
LabelLine_body(text, label) ==
  LET j == Least({j \in 1..Len(text) : LabelAt(text, j, label)})
      c == j + 2 * Len(label)
      nl == Least({n \in c..Len(text) : text[n] = NL})
      e == IF nl = 0 THEN Len(text) + 1 ELSE nl
  IN SubSeq(text, c, e - 1)

\* the separator of  label:.*?([-]|:)  for the label at token j: the first
\* hyphen or colon after the label on its line, 0 when there is none
LabelSeparator_body(text, j, label) ==
  LET c == j + 2 * Len(label) IN
    Least({k \in c..Len(text) :
             /\ text[k] \in {":", EM_DASH} \cup StartsWithExact("-")
             /\ \A m \in c..(k - 1) : text[m] # NL})

\* re.search(r"label:.*?([-]|:)\s*(.*?)(?:\n|$)", text) matches
FormattedMatch(text, label) ==
  \E j \in 1..Len(text) :
    LabelAt(text, j, label) /\ LabelSeparator(text, j, label) # 0

\* group 2 of that match: what follows the separator and the whitespace
\* after it, to the end of the line
FormattedLine_body(text, label) ==
  LET j == Least({j \in 1..Len(text) :
                    LabelAt(text, j, label) /\ LabelSeparator(text, j, label) # 0})
      k == LabelSeparator(text, j, label)
      rest == IF text[k] \in {":", "-", EM_DASH} THEN <<>> ELSE <<RestOf(text[k])>>
      g == IF rest = <<>> THEN SkipWS(text, k + 1) ELSE k + 1
      nl == Least({n \in g..Len(text) : text[n] = NL})
      e == IF nl = 0 THEN Len(text) + 1 ELSE nl
  IN rest \o SubSeq(text, g, e - 1)

\* extract_section_skills of _extract_skills_from_formatted_sections
extract_section_skills_body(text, label) ==
  LET skills_text == Strip(FormattedLine(text, label)) IN
    IF ~FormattedMatch(text, label) THEN <<>>
    ELSE IF \E i \in 1..Len(skills_text) : skills_text[i] = ","
      THEN StripNonEmpty(SplitOn(skills_text, {","}))
    ELSE SplitWS(skills_text)

\* technical_skills[category] = skills, when there are skills
Category(category, skills) ==
  IF skills = <<>> THEN <<>>
  ELSE <<[category |-> category, skills |-> skills]>>

extract_skills_from_formatted_sections_body(text) ==
  LET prog_langs == extract_section_skills(text, <<"Programming", "Languages">>)
      web_dev_skills == extract_section_skills(text, <<"Web", "Development">>)
      db_skills == extract_section_skills(text, <<"Databases">>)
      tool_skills == extract_section_skills(text, <<"Software", "Tools">>)
      soft_skill_list == extract_section_skills(text, <<"Soft", "Skills">>)
  IN [all |-> prog_langs \o web_dev_skills \o db_skills \o tool_skills
                \o soft_skill_list,
      technical |-> Category("programming_languages", prog_langs)
                      \o Category("web_development", web_dev_skills)
                      \o Category("databases", db_skills),
      soft_skills |-> soft_skill_list,
      tools_software |-> tool_skills]

\* the skills of one labelled line of the categorized format: the parts
\* between commas, stripped
CategorizedSkills_body(text, label) ==
  IF HasLabel(text, label)
  THEN StripAll(SplitOn(Strip(LabelLine(text, label)), {","}))
  ELSE <<>>

\* technical_skills[category] = skills_list, when the label was found
Labelled(text, label, category) ==
  IF HasLabel(text, label)
  THEN <<[category |-> category, skills |-> CategorizedSkills(text, label)]>>
  ELSE <<>>

\* extract_skills_from_categorized_format without the key tools_software
CategorizedWithoutTools(text) ==
  [all |-> CategorizedSkills(text, <<"Programming", "Languages">>)
             \o CategorizedSkills(text, <<"Tools">>),
   technical |-> Labelled(text, <<"Programming", "Languages">>,
                          "programming_languages")
                   \o Labelled(text, <<"Tools">>, "tools"),
   soft_skills |-> <<>>]

extract_skills_from_categorized_format_body(text) ==
  [all |-> CategorizedSkills(text, <<"Programming", "Languages">>)
             \o CategorizedSkills(text, <<"Web", "Technologies">>)
             \o CategorizedSkills(text, <<"Databases">>)
             \o CategorizedSkills(text, <<"Tools">>),
   technical |-> Labelled(text, <<"Programming", "Languages">>,
                          "programming_languages")
                   \o Labelled(text, <<"Web", "Technologies">>, "web_development")
                   \o Labelled(text, <<"Databases">>, "databases")
                   \o Labelled(text, <<"Tools">>, "tools"),
   soft_skills |-> <<>>,
   tools_software |-> CategorizedSkills(text, <<"Tools">>)]

\* the em dash of  label:.*?\u2014  for the label at token j: the first one
\* after the label on its line, 0 when there is none
DashSeparator_body(text, j, label) ==
  LET c == j + 2 * Len(label) IN
    Least({k \in c..Len(text) :
             /\ text[k] = EM_DASH
             /\ \A m \in c..(k - 1) : text[m] # NL})

\* re.search(r"label:.*?\u2014(.*?)(?:\n|$)", text) matches
DashMatch(text, label) ==
  \E j \in 1..Len(text) :
    LabelAt(text, j, label) /\ DashSeparator(text, j, label) # 0

\* group 1 of that match: what follows the em dash, to the end of the line
DashLine_body(text, label) ==
  LET j == Least({j \in 1..Len(text) :
                    LabelAt(text, j, label) /\ DashSeparator(text, j, label) # 0})
      k == DashSeparator(text, j, label)
      nl == Least({n \in (k + 1)..Len(text) : text[n] = NL})
      e == IF nl = 0 THEN Len(text) + 1 ELSE nl
  IN SubSeq(text, k + 1, e - 1)

\* [s.strip() for s in re.split(r',|\s+', line) if s.strip()]
CommaOrSpaceSplit_body(line) == StripNonEmpty(SplitOn(Strip(line), {","} \cup WS))

\* the skills after the em dash of a labelled line of the dash format
DashSkills(text, label) ==
  IF DashMatch(text, label) THEN CommaOrSpaceSplit(DashLine(text, label))
  ELSE <<>>

\* technical_skills[category] = skills_list, when the pattern matched
DashLabelled(text, label, category) ==
  IF DashMatch(text, label)
  THEN <<[category |-> category, skills |-> DashSkills(text, label)]>>
  ELSE <<>>

\* the soft skills of the dash format, whose pattern asks for no em dash
DashSoftSkills(text) ==
  IF HasLabel(text, <<"Soft", "Skills">>)
  THEN CommaOrSpaceSplit(LabelLine(text, <<"Soft", "Skills">>))
  ELSE <<>>

extract_skills_from_dash_format_body(text) ==
  [all |-> DashSkills(text, <<"Programming", "Languages">>)
             \o DashSkills(text, <<"Web", "Development">>)
             \o DashSkills(text, <<"Databases">>)
             \o DashSkills(text, <<"Software", "Tools">>)
             \o DashSoftSkills(text),
   technical |-> DashLabelled(text, <<"Programming", "Languages">>,
                              "programming_languages")
                   \o DashLabelled(text, <<"Web", "Development">>,
                                   "web_development")
                   \o DashLabelled(text, <<"Databases">>, "databases"),
   soft_skills |-> DashSoftSkills(text),
   tools_software |-> DashSkills(text, <<"Software", "Tools">>)]

\* the labels that open the dash format
DASH_LABELS ==
  {<<"Programming", "Languages">>, <<"Web", "Development">>, <<"Databases">>}

\* the labels of the formatted sections
FORMATTED_LABELS ==
  {<<"Programming", "Languages">>, <<"Web", "Development">>, <<"Databases">>,
   <<"Software", "Tools">>, <<"Soft", "Skills">>}

\* the labels of the categorized format
CATEGORIZED_LABELS ==
  {<<"Programming", "Languages">>, <<"Web", "Technologies">>, <<"Databases">>,
   <<"Tools">>}

\* the general scan with the soft skills left out of the list "all"
GeneralWithoutSoftSkills(text) ==
  LET clean == clean_text(text)
      tech_skills_by_category == extract_tech_skills(clean, 1)
      tools == extract_tools(clean)
  IN [all |-> Sorted(UNION {tech_skills_by_category[i].skills :
                              i \in 1..Len(tech_skills_by_category)}
                       \cup tools),
      technical |->
        [i \in 1..Len(tech_skills_by_category) |->
           [category |-> tech_skills_by_category[i].category,
            skills |-> Sorted(tech_skills_by_category[i].skills)]],
      soft_skills |-> Sorted(extract_soft_skills(clean)),
      tools_software |-> Sorted(tools)]

\* the general scan for the words of the skill tables
extract_skills_general_body(text) ==
  LET clean == clean_text(text)
      tech_skills_by_category == extract_tech_skills(clean, 1)
      soft_skills == extract_soft_skills(clean)
      tools == extract_tools(clean)
      all_skills ==
        UNION {tech_skills_by_category[i].skills :
                 i \in 1..Len(tech_skills_by_category)}
          \cup soft_skills \cup tools
  IN [all |-> Sorted(all_skills),
      technical |->
        [i \in 1..Len(tech_skills_by_category) |->
           [category |-> tech_skills_by_category[i].category,
            skills |-> Sorted(tech_skills_by_category[i].skills)]],
      soft_skills |-> Sorted(soft_skills),
      tools_software |-> Sorted(tools)]

extract_skills_body(text) ==
  IF /\ HasExact(text, "SKILLS")
     /\ \E label \in FORMATTED_LABELS : FormattedMatch(text, label)
    THEN Return(extract_skills_from_formatted_sections(text))
  ELSE IF /\ \E i \in 1..Len(text) : text[i] = EM_DASH
          /\ \E label \in DASH_LABELS : HasLabel(text, label)
    THEN Return(extract_skills_from_dash_format(text))
  ELSE IF \E label \in CATEGORIZED_LABELS : HasLabel(text, label)
    THEN Return(extract_skills_from_categorized_format(text))
  ELSE Return(extract_skills_general(text))

\* set(xs) of a list of skills
SkillSet(xs) == {xs[i] : i \in 1..Len(xs)}

\* tech_dict.get(category, [])
CategorySkills(technical, category) ==
  IF \E i \in 1..Len(technical) : technical[i].category = category
  THEN technical[CHOOSE i \in 1..Len(technical) :
                   technical[i].category = category].skills
  ELSE <<>>

\* the categories that a result of extract_skills can hold: the ones of
\* TECH_SKILLS_CATEGORIES and the category "tools" of the categorized format
CATEGORY_NAMES ==
  [i \in 1..Len(TECH_SKILLS_CATEGORIES) |-> TECH_SKILLS_CATEGORIES[i].name]
    \o <<"tools">>

\* lines 490-504: the skills of each category over the four results, sorted,
\* for the categories that have some; the dictionary is written in the order
\* of CATEGORY_NAMES, the order of its keys being no part of its value
CombinedTechnical_body(results, c) ==
  IF c > Len(CATEGORY_NAMES) THEN <<>>
  ELSE LET combined_tech_skills ==
             UNION {SkillSet(CategorySkills(results[i].technical,
                                            CATEGORY_NAMES[c])) :
                      i \in 1..Len(results)}
       IN (IF combined_tech_skills = {} THEN <<>>
           ELSE <<[category |-> CATEGORY_NAMES[c],
                   skills |-> Sorted(combined_tech_skills)]>>)
            \o CombinedTechnical(results, c + 1)

extract_skills_from_sections_body(sections) ==
  LET skills_text == Get(sections, "skills")
      skills_from_skills == extract_skills(skills_text).val
      skills_from_experience == extract_skills(Get(sections, "experience")).val
      skills_from_summary == extract_skills(Get(sections, "profile")).val
      skills_from_projects == extract_skills(Get(sections, "projects")).val
      results == <<skills_from_skills, skills_from_experience,
                   skills_from_summary, skills_from_projects>>
  IN IF \/ HasLabel(skills_text, <<"Programming", "Languages">>)
        \/ HasLabel(skills_text, <<"Web", "Technologies">>)
     THEN extract_skills_from_categorized_format(skills_text)
     ELSE [all |-> Sorted(UNION {SkillSet(results[i].all) : i \in 1..4}),
           technical |-> CombinedTechnical(results, 1),
           soft_skills |->
             Sorted(UNION {SkillSet(results[i].soft_skills) : i \in 1..4}),
           tools_software |->
             Sorted(UNION {SkillSet(results[i].tools_software) : i \in 1..4})]



(***************************************************************************)
(* utils/file_utils.py                                                     *)
(***************************************************************************)
\* a file of the file system: whether its path exists, the extension of
\* the path as written, and the text that reading it gives
File(exists, extension, content) ==
  [exists |-> exists, extension |-> extension, content |-> content]

\* os.path.splitext(file_path)[1].lower().lstrip('.')
get_file_extension(file) ==
  CASE file.extension = ".TXT" -> "txt"
    [] file.extension = ".txt" -> "txt"
    [] file.extension = ".Pdf" -> "pdf"
    [] file.extension = ".md" -> "md"
    [] OTHER -> file.extension

SUPPORTED_EXTENSIONS == {"pdf", "docx", "txt", "jpg", "jpeg", "png"}

is_supported_file(file) == get_file_extension(file) \in SUPPORTED_EXTENSIONS


(***************************************************************************)
(* resume_parser.py: the steps of ResumeParser.parse                       *)
(***************************************************************************)
\* validate with the test of the extension before the test of existence
ValidateExtensionFirst(file) ==
  IF ~is_supported_file(file) THEN "ValueError"
  ELSE IF ~file.exists THEN "FileNotFoundError"
  ELSE None

\* the checks of parse before it reads the file: the exception raised, or
\* None
validate(file) ==
  IF ~file.exists THEN "FileNotFoundError"
  ELSE IF ~is_supported_file(file) THEN "ValueError"
  ELSE None

\* clean_text, then normalize_whitespace
preprocess(text) == normalize_whitespace(clean_text(text))

\* AddName that leaves the list as it is
NameNotAdded(section_names, name) == section_names

\* section_names.append(name) when it is not in the list
AddName(section_names, name) ==
  IF \E i \in 1..Len(section_names) : section_names[i] = name
  THEN section_names ELSE Append(section_names, name)

\* what a step of parse gives: the exception it raises or the value it
\* extracts, and the sections and the section names it leaves
Step(exc, val, sections, section_names) ==
  [exc |-> exc, val |-> val, sections |-> sections,
   section_names |-> section_names]

\* the special case for known institutions applied to one education entry
KnownInstitution_body(text, edu) ==
  LET institution ==
        IF HasExact(text, "Marathwada") /\ ~Truthy(edu.institution)
        THEN <<"Marathwada", SP, "Mitra", SP, "Mandal", "'", "s", SP,
               "College", SP, "of", SP, "Engineering">>
        ELSE edu.institution
      degree ==
        IF HasExact(edu.degree, "Bachelor") /\ HasExact(text, "Computer")
        THEN Ph(<<"Bachelor", "of", "Engineering", "in", "Computer",
                  "Engineering">>)
        ELSE edu.degree
  IN [edu EXCEPT !.institution = institution, !.degree = degree]

\* a step that keeps what the extractor gave and the sections as they are
Extracted(r, sections, section_names) ==
  Step(r.exc, r.val, sections, section_names)

\* lines 89-96 of parse: r is what extract_education gave
KnownEducation_body(text, r, sections, section_names) ==
  Step(r.exc,
       IF r.exc # None THEN <<>>
       ELSE IF r.val # <<>>
               /\ (HasExact(text, "Marathwada") \/ HasExact(text, "MMM"))
         THEN [i \in 1..Len(r.val) |-> KnownInstitution(text, r.val[i])]
       ELSE r.val,
       sections, section_names)

\* lines 86-96 of parse
EducationStep_body(text, sections, section_names) ==
  KnownEducation(text, extract_education(Get(sections, "education")),
                 sections, section_names)

\* the token after the last newline of the whitespace that follows the
\* heading at token j (heading\s*\n), 0 when no newline follows it
GroupStart_body(text, j) ==
  LET nl == Greatest({k \in (j + 1)..(SkipWS(text, j + 1) - 1) : text[k] = NL})
  IN IF nl = 0 THEN 0 ELSE nl + 1

\* the newline of the first  \n\s*[A-Z]{2,}  at or after token c, 0 when
\* there is none before the end of the text
NextHeading_body(text, c) ==
  Least({k \in c..Len(text) :
           /\ text[k] = NL
           /\ SkipWS(text, k + 1) <= Len(text)
           /\ CapsRun(text[SkipWS(text, k + 1)]) # ""})

\* re.search(heading + r'\s*\n(.*?)(?:\n\s*[A-Z]{2,}|\Z)', text, re.DOTALL)
\* matches
HeadingMatch(text, heading) ==
  \E j \in 1..Len(text) :
    text[j] \in EndsWithExact(heading) /\ GroupStart(text, j) # 0

\* group 1 of that match, stripped
HeadingText_body(text, heading) ==
  LET j == Least({j \in 1..Len(text) :
                    text[j] \in EndsWithExact(heading) /\ GroupStart(text, j) # 0})
      g == GroupStart(text, j)
      k == NextHeading(text, g)
      e == IF k = 0 THEN Len(text) + 1 ELSE k
  IN Strip(SubSeq(text, g, e - 1))

\* "Software Engineer" or "ABC Tech" stands in text from token i on
TestPhraseAt_body(text, i) ==
  /\ i + 2 <= Len(text) /\ text[i + 1] = SP
  /\ \/ text[i] \in EndsWithExact("Software")
          /\ text[i + 2] \in StartsWithExact("Engineer")
     \/ text[i] \in EndsWithExact("ABC")
          /\ text[i + 2] \in StartsWithExact("Tech")

\* the first of these phrases at or after token g, 0 when there is none
TestPhrase(text, g) == Least({i \in g..Len(text) : TestPhraseAt(text, i)})

\* re.search(r'EXPERIENCE\s*\n(.*?(?:Software Engineer|ABC Tech).*?
\* (?:\n\s*[A-Z]{2,}|\Z))', text, re.DOTALL) matches
TestExperienceMatch_body(text) ==
  \E j \in 1..Len(text) :
    /\ text[j] \in EndsWithExact("EXPERIENCE")
    /\ GroupStart(text, j) # 0
    /\ TestPhrase(text, GroupStart(text, j)) # 0

\* group 1 of that match, stripped: it ends with the capital letters that
\* start the next heading
TestExperienceText_body(text) ==
  LET j == Least({j \in 1..Len(text) :
                    /\ text[j] \in EndsWithExact("EXPERIENCE")
                    /\ GroupStart(text, j) # 0
                    /\ TestPhrase(text, GroupStart(text, j)) # 0})
      g == GroupStart(text, j)
      k == NextHeading(text, TestPhrase(text, g) + 3)
      caps == SkipWS(text, k + 1)
  IN IF k = 0 THEN Strip(SubSeq(text, g, Len(text)))
     ELSE Strip(SubSeq(text, g, caps - 1) \o <<CapsRun(text[caps])>>)

\* lines 98-99 of parse
FirstExperience(sections, section_names) ==
  Extracted(extract_experience(Get(sections, "experience")),
            sections, section_names)

\* lines 107-112: the text is registered as the experience section and the
\* entries are extracted from it
TestRescued(st, test_exp_text) ==
  Extracted(extract_experience(test_exp_text),
            Put(st.sections, "experience", test_exp_text),
            AddName(st.section_names, "experience"))

\* lines 101-112: st is the step so far
TestRescue(text, st) ==
  IF st.exc = None /\ st.val = <<>> /\ TestExperienceMatch(text)
  THEN TestRescued(st, TestExperienceText(text))
  ELSE st

\* lines 119-128: r is what extract_experience gave for the internship text
InternshipRescued_body(st, internship_text, r) ==
  IF r.exc # None THEN Extracted(r, st.sections, st.section_names)
  ELSE Step(None, r.val, Put(st.sections, "experience", internship_text),
            AddName(st.section_names, "experience"))

\* lines 114-128
InternshipRescue_body(text, st) ==
  IF st.exc = None /\ st.val = <<>> /\ HeadingMatch(text, "INTERNSHIP")
  THEN InternshipRescued(st, HeadingText(text, "INTERNSHIP"),
                         extract_experience(HeadingText(text, "INTERNSHIP")))
  ELSE st

\* lines 98-128 of parse
ExperienceStep_body(text, sections, section_names) ==
  InternshipRescue(text,
    TestRescue(text, FirstExperience(sections, section_names)))

\* Rescued with a new dict in place of the assignment to the key
RescuedAlone(section_text, sections, section_names, name) ==
  Step(None, section_text, <<[name |-> name, text |-> section_text]>>,
       AddName(section_names, name))

\* the text found under a heading is registered as the section
Rescued(section_text, sections, section_names, name) ==
  Step(None, section_text, Put(sections, name, section_text),
       AddName(section_names, name))

\* the direct check for a section that the section extractor did not find:
\* the text of the section, the sections and the section names after it
Rescue_body(text, sections, section_names, name, heading) ==
  IF Get(sections, name) = <<>> /\ HeadingMatch(text, heading)
  THEN Rescued(HeadingText(text, heading), sections, section_names, name)
  ELSE Step(None, Get(sections, name), sections, section_names)

SkillsOf(found) ==
  Extracted(extract_skills(found.val), found.sections, found.section_names)

\* lines 130-145 of parse
SkillsStep_body(text, sections, section_names) ==
  SkillsOf(Rescue(text, sections, section_names, "skills", "SKILLS"))

ProjectsOf(found) ==
  Extracted(extract_projects(found.val), found.sections, found.section_names)

\* lines 147-162 of parse
ProjectsStep_body(text, sections, section_names) ==
  ProjectsOf(Rescue(text, sections, section_names, "projects", "PROJECTS"))

\* the words that make a line of the education text a certification
CERTIFICATION_KEYWORDS ==
  {"certification", "certificate", "certified", "credential", "license"}

\* keyword in line.lower() for some certification keyword
IsCertificationLine(line) ==
  \E i \in 1..Len(line) : line[i] \in AnyWordsWith(CERTIFICATION_KEYWORDS)

CertificationsOf(found) ==
  Extracted(extract_certifications(found.val), found.sections,
            found.section_names)

\* lines 181-192 of parse: st is the step so far
EducationCertifications_body(st, education_text) ==
  IF /\ st.exc = None /\ st.val = <<>> /\ education_text # <<>>
     /\ \E i \in 1..Len(education_text) :
          education_text[i] \in WordsWith("certification")
     /\ SelectSeq(SplitLines(education_text), IsCertificationLine) # <<>>
  THEN Extracted(
         extract_certifications(
           JoinLines(SelectSeq(SplitLines(education_text), IsCertificationLine))),
         st.sections, st.section_names)
  ELSE st

\* lines 164-192 of parse
CertificationsStep_body(text, sections, section_names) ==
  EducationCertifications(
    CertificationsOf(Rescue(text, sections, section_names, "certifications",
                            "CERTIFICATIONS")),
    Get(sections, "education"))

\* a call or a search that parse makes: its kind, what it calls or looks
\* for, and the line of parse that makes it
Site(kind, op, line) == [kind |-> kind, op |-> op, line |-> line]

Extractor(op, line) == Site("extractor", op, line)

Scan(heading, line) == Site("scan", heading, line)

\* line 88
EducationInvoked(text, sections, section_names) ==
  <<Extractor("_extract_education", 88)>>

\* lines 114-124: tested is the step after the search for the test resume
InternshipInvoked_body(text, tested) ==
  IF tested.exc = None /\ tested.val = <<>>
  THEN <<Scan("INTERNSHIP", 120)>>
         \o (IF HeadingMatch(text, "INTERNSHIP")
             THEN <<Extractor("_extract_experience", 124)>> ELSE <<>>)
  ELSE <<>>

\* lines 100-124
ExperienceInvoked_body(text, sections, section_names) ==
  LET first == FirstExperience(sections, section_names) IN
    <<Extractor("_extract_experience", 100)>>
      \o (IF first.exc = None /\ first.val = <<>>
          THEN <<Scan("EXPERIENCE", 108)>>
                 \o (IF TestExperienceMatch(text)
                     THEN <<Extractor("_extract_experience", 116)>> ELSE <<>>)
                 \o InternshipInvoked(text, TestRescue(text, first))
          ELSE <<>>)

\* the direct check for a section that the section extractor did not find
RescueInvoked(sections, name, heading, line) ==
  IF Get(sections, name) = <<>> THEN <<Scan(heading, line)>> ELSE <<>>

\* lines 134-145
SkillsInvoked(text, sections, section_names) ==
  RescueInvoked(sections, "skills", "SKILLS", 137)
    \o <<Extractor("_extract_skills", 145)>>

\* lines 151-162
ProjectsInvoked(text, sections, section_names) ==
  RescueInvoked(sections, "projects", "PROJECTS", 154)
    \o <<Extractor("_extract_projects", 162)>>

\* lines 168-192
CertificationsInvoked_body(text, sections, section_names) ==
  LET st == CertificationsOf(Rescue(text, sections, section_names,
                                    "certifications", "CERTIFICATIONS"))
      education_text == Get(sections, "education")
  IN RescueInvoked(sections, "certifications", "CERTIFICATIONS", 171)
       \o <<Extractor("_extract_certifications", 179)>>
       \o (IF /\ st.exc = None /\ st.val = <<>> /\ education_text # <<>>
              /\ \E i \in 1..Len(education_text) :
                   education_text[i] \in WordsWith("certification")
              /\ SelectSeq(SplitLines(education_text), IsCertificationLine) # <<>>
           THEN <<Extractor("_extract_certifications", 192)>> ELSE <<>>)

\* the dictionary that parse returns
Result(section_names, education, experience, skills, projects, certifications) ==
  [sections |-> section_names, education |-> education,
   experience |-> experience, skills |-> skills, projects |-> projects,
   certifications |-> certifications]

\* the section map of a text and the list of its keys
Segmented(s) == Step(None, <<>>, s, Keys(s))

\* lines 73-84 of parse: the section map of the preprocessed text and the
\* list of its keys
SegmentStep_body(t) == Segmented(extract_sections(preprocess(t)))

\* the values of a call after segmentation
Frame_body(st) ==
  [exc |-> None, sections |-> st.sections, section_names |-> st.section_names,
   education |-> <<>>, experience |-> <<>>, skills |-> <<>>,
   projects |-> <<>>, certifications |-> <<>>]

\* the values of a call after the step that gave st for the entries of kind
After(f, kind, st) ==
  IF f.exc # None THEN f
  ELSE IF st.exc # None THEN [f EXCEPT !.exc = st.exc]
  ELSE [f EXCEPT ![kind] = st.val, !.sections = st.sections,
                 !.section_names = st.section_names]

AfterEducation(text, f) ==
  After(f, "education", EducationStep(text, f.sections, f.section_names))

AfterExperience(text, f) ==
  After(f, "experience", ExperienceStep(text, f.sections, f.section_names))

AfterSkills(text, f) ==
  After(f, "skills", SkillsStep(text, f.sections, f.section_names))

AfterProjects(text, f) ==
  After(f, "projects", ProjectsStep(text, f.sections, f.section_names))

AfterCertifications(text, f) ==
  After(f, "certifications",
        CertificationsStep(text, f.sections, f.section_names))

\* what the call gives at its end
Outcome(f) ==
  IF f.exc # None THEN Raise(f.exc)
  ELSE Return(Result(f.section_names, f.education, f.experience, f.skills,
                     f.projects, f.certifications))

\* lines 73-210 of parse as one function of the text of the file: the
\* exception raised, or the dictionary returned
parse_steps_body(text) ==
  Outcome(
    AfterCertifications(text,
      AfterProjects(text,
        AfterSkills(text,
          AfterExperience(text,
            AfterEducation(text,
              Frame(Segmented(extract_sections(preprocess(text))))))))))


(***************************************************************************)
(* The operator named f applied to the arguments a.                        *)
(***************************************************************************)
call(f, a) ==
  CASE f = "LowerWord" -> LowerWord_body(a[1])
    [] f = "TitleWords" -> TitleWords_body
    [] f = "CapitalWords" -> CapitalWords_body
    [] f = "PunctWords" -> PunctWords_body
    [] f = "WordsWith" -> WordsWith_body(a[1])
    [] f = "WordsWithExact" -> WordsWithExact_body(a[1])
    [] f = "StartsWith" -> StartsWith_body(a[1])
    [] f = "EndsWith" -> EndsWith_body(a[1])
    [] f = "StartsWithExact" -> StartsWithExact_body(a[1])
    [] f = "EndsWithExact" -> EndsWithExact_body(a[1])
    [] f = "CapsRun" -> CapsRun_body(a[1])
    [] f = "CodePoints" -> CodePoints_body(a[1])
    [] f = "RestOf" -> RestOf_body(a[1])
    [] f = "clean_text" -> clean_text_body(a[1])
    [] f = "normalize_whitespace" -> normalize_whitespace_body(a[1])
    [] f = "SECTION_TITLES" -> SECTION_TITLES_body(a[1])
    [] f = "IsSeparator" -> IsSeparator_body(a[1])
    [] f = "identify_section_title" -> identify_section_title_body(a[1])
    [] f = "BoundaryScan" -> BoundaryScan_body(a[1], a[2], a[3], a[4], a[5])
    [] f = "FallbackScan" -> FallbackScan_body(a[1], a[2], a[3], a[4])
    [] f = "identify_section_boundaries" -> identify_section_boundaries_body(a[1])
    [] f = "clean_section_title" -> clean_section_title_body(a[1], a[2])
    [] f = "Put" -> Put_body(a[1], a[2], a[3])
    [] f = "SliceSections" -> SliceSections_body(a[1], a[2], a[3], a[4])
    [] f = "CertMatchStart" -> CertMatchStart_body(a[1])
    [] f = "PostProcessScan" -> PostProcessScan_body(a[1], a[2], a[3])
    [] f = "extract_sections" -> extract_sections_body(a[1])
    [] f = "SkipWS" -> SkipWS_body(a[1], a[2])
    [] f = "AlphaRunEnd" -> AlphaRunEnd_body(a[1], a[2])
    [] f = "WordRunEnd" -> WordRunEnd_body(a[1], a[2])
    [] f = "DEGREE_PATTERNS" -> DEGREE_PATTERNS_body
    [] f = "AltEnd" -> AltEnd_body(a[1], a[2], a[3])
    [] f = "DegreeSplitPoints" -> DegreeSplitPoints_body(a[1])
    [] f = "split_education_entries" -> split_education_entries_body(a[1])
    [] f = "FULL_DEGREE_INDICATORS" -> FULL_DEGREE_INDICATORS_body
    [] f = "split_by_degree_indicators" -> split_by_degree_indicators_body(a[1])
    [] f = "InField" -> InField_body(a[1], a[2], a[3])
    [] f = "FieldAfter" -> FieldAfter_body(a[1], a[2])
    [] f = "KeywordPhrase" -> KeywordPhrase_body(a[1], a[2])
    [] f = "extract_degree" -> extract_degree_body(a[1])
    [] f = "COMMON_FIELDS" -> COMMON_FIELDS_body
    [] f = "CommonField" -> CommonField_body(a[1])
    [] f = "is_valid_field" -> is_valid_field_body(a[1])
    [] f = "FieldByHead" -> FieldByHead_body(a[1], a[2])
    [] f = "FromInstitution" -> FromInstitution_body(a[1], a[2])
    [] f = "FieldBeforeInstitution" -> FieldBeforeInstitution_body(a[1])
    [] f = "extract_field_of_study" -> extract_field_of_study_body(a[1])
    [] f = "extract_concentration" -> extract_concentration_body(a[1])
    [] f = "COMMON_INSTITUTIONS" -> COMMON_INSTITUTIONS_body
    [] f = "extract_institution" -> extract_institution_body(a[1])
    [] f = "DateRange" -> DateRange_body(a[1])
    [] f = "DateGroupEnd" -> DateGroupEnd_body(a[1], a[2], a[3])
    [] f = "extract_dates" -> extract_dates_body(a[1])
    [] f = "NumEnds" -> NumEnds_body(a[1], a[2], a[3])
    [] f = "HonorsPhrases" -> HonorsPhrases_body
    [] f = "ScorePhrases" -> ScorePhrases_body
    [] f = "PhraseSearch" -> PhraseSearch_body(a[1], a[2])
    [] f = "ScoreMatch" -> ScoreMatch_body(a[1], a[2])
    [] f = "extract_score" -> extract_score_body(a[1])
    [] f = "DegreeWithField" -> DegreeWithField_body(a[1], a[2])
    [] f = "DegreeWithConcentration" -> DegreeWithConcentration_body(a[1], a[2])
    [] f = "EducationRecord" -> EducationRecord_body(a[1], a[2], a[3])
    [] f = "EducationFields" -> EducationFields_body(a[1], a[2], a[3], a[4])
    [] f = "CleanEducationEntry" -> CleanEducationEntry_body(a[1], a[2])
    [] f = "EducationEntries" -> EducationEntries_body(a[1], a[2])
    [] f = "extract_education" -> extract_education_body(a[1])
    [] f = "HasPair" -> HasPair_body(a[1], a[2], a[3])
    [] f = "JOB_TITLE_PATTERNS" -> JOB_TITLE_PATTERNS_body
    [] f = "COMPANY_PATTERNS" -> COMPANY_PATTERNS_body
    [] f = "COMMON_COMPANIES" -> COMMON_COMPANIES_body
    [] f = "HasCompany" -> HasCompany_body(a[1], a[2])
    [] f = "HasYearRange" -> HasYearRange_body(a[1])
    [] f = "is_likely_experience_section" -> is_likely_experience_section_body(a[1])
    [] f = "TitleSplitPoints" -> TitleSplitPoints_body(a[1])
    [] f = "split_experience_entries" -> split_experience_entries_body(a[1])
    [] f = "SPECIFIC_TITLES" -> SPECIFIC_TITLES_body
    [] f = "TitleAt" -> TitleAt_body(a[1], a[2], a[3])
    [] f = "extract_job_title" -> extract_job_title_body(a[1])
    [] f = "TwoWords" -> TwoWords_body(a[1], a[2])
    [] f = "SecondLineCompany" -> SecondLineCompany_body(a[1])
    [] f = "extract_company" -> extract_company_body(a[1])
    [] f = "DateEnd" -> DateEnd_body(a[1], a[2], a[3], a[4])
    [] f = "EXPERIENCE_DATE_PATTERNS" -> EXPERIENCE_DATE_PATTERNS_body
    [] f = "RangeMatch" -> RangeMatch_body(a[1], a[2])
    [] f = "extract_date_range" -> extract_date_range_body(a[1])
    [] f = "MarkerEnd" -> MarkerEnd_body(a[1], a[2], a[3])
    [] f = "Markers" -> Markers_body(a[1], a[2])
    [] f = "BulletText" -> BulletText_body(a[1], a[2], a[3])
    [] f = "extract_responsibilities" -> extract_responsibilities_body(a[1])
    [] f = "AbcTechEntry" -> AbcTechEntry_body(a[1])
    [] f = "MonthNames" -> MonthNames_body
    [] f = "TestDate" -> TestDate_body(a[1])
    [] f = "test_patterns" -> test_patterns_body
    [] f = "TestMatch" -> TestMatch_body(a[1], a[2])
    [] f = "TestEntry" -> TestEntry_body(a[1], a[2])
    [] f = "ExperienceEntry" -> ExperienceEntry_body(a[1])
    [] f = "ExperienceEntries" -> ExperienceEntries_body(a[1], a[2])
    [] f = "extract_experience" -> extract_experience_body(a[1])
    [] f = "ISSUER_PATTERNS" -> ISSUER_PATTERNS_body
    [] f = "ID_PATTERNS" -> ID_PATTERNS_body
    [] f = "HasTriple" -> HasTriple_body(a[1], a[2], a[3], a[4])
    [] f = "MongoNameMatch" -> MongoNameMatch_body(a[1])
    [] f = "handle_mongodb_geeksforgeeks_cert" -> handle_mongodb_geeksforgeeks_cert_body(a[1])
    [] f = "AwsNameMatch" -> AwsNameMatch_body(a[1])
    [] f = "handle_aws_certification" -> handle_aws_certification_body(a[1])
    [] f = "split_certification_entries" -> split_certification_entries_body(a[1])
    [] f = "SplitOnce" -> SplitOnce_body(a[1])
    [] f = "extract_issuer" -> extract_issuer_body(a[1])
    [] f = "CertDateEnd" -> CertDateEnd_body(a[1], a[2], a[3])
    [] f = "CertDateMatch" -> CertDateMatch_body(a[1], a[2])
    [] f = "extract_date" -> extract_date_body(a[1])
    [] f = "IdRunEnd" -> IdRunEnd_body(a[1], a[2])
    [] f = "extract_credential_id" -> extract_credential_id_body(a[1])
    [] f = "CertificationEntry" -> CertificationEntry_body(a[1])
    [] f = "CertificationEntries" -> CertificationEntries_body(a[1], a[2])
    [] f = "extract_certifications" -> extract_certifications_body(a[1])
    [] f = "NameRunEnd" -> NameRunEnd_body(a[1], a[2])
    [] f = "StartMatchEnd" -> StartMatchEnd_body(a[1], a[2])
    [] f = "split_project_entries" -> split_project_entries_body(a[1])
    [] f = "extract_project_name" -> extract_project_name_body(a[1])
    [] f = "PROJECT_DATE_PATTERNS" -> PROJECT_DATE_PATTERNS_body
    [] f = "YearMatch" -> YearMatch_body(a[1])
    [] f = "project_date_range" -> project_date_range_body(a[1])
    [] f = "TECHNOLOGY_HEADINGS" -> TECHNOLOGY_HEADINGS_body
    [] f = "HeadingTechnologies" -> HeadingTechnologies_body(a[1])
    [] f = "UsingEnd" -> UsingEnd_body(a[1], a[2])
    [] f = "InGroupStart" -> InGroupStart_body(a[1], a[2])
    [] f = "UsingTechnologies" -> UsingTechnologies_body(a[1])
    [] f = "extract_description" -> extract_description_body(a[1])
    [] f = "ProjectEntry" -> ProjectEntry_body(a[1])
    [] f = "ProjectEntries" -> ProjectEntries_body(a[1], a[2])
    [] f = "extract_projects" -> extract_projects_body(a[1])
    [] f = "TECH_SKILLS_CATEGORIES" -> TECH_SKILLS_CATEGORIES_body
    [] f = "SOFT_SKILLS" -> SOFT_SKILLS_body
    [] f = "TOOLS_SOFTWARE" -> TOOLS_SOFTWARE_body
    [] f = "SkillEnd" -> SkillEnd_body(a[1], a[2], a[3])
    [] f = "SoftAt" -> SoftAt_body(a[1], a[2])
    [] f = "CodePointsBefore" -> CodePointsBefore_body(a[1], a[2])
    [] f = "extract_soft_skills" -> extract_soft_skills_body(a[1])
    [] f = "extract_tools" -> extract_tools_body(a[1])
    [] f = "LabelAt" -> LabelAt_body(a[1], a[2], a[3])
    [] f = "LabelLine" -> LabelLine_body(a[1], a[2])
    [] f = "LabelSeparator" -> LabelSeparator_body(a[1], a[2], a[3])
    [] f = "FormattedLine" -> FormattedLine_body(a[1], a[2])
    [] f = "extract_section_skills" -> extract_section_skills_body(a[1], a[2])
    [] f = "extract_skills_from_formatted_sections" -> extract_skills_from_formatted_sections_body(a[1])
    [] f = "CategorizedSkills" -> CategorizedSkills_body(a[1], a[2])
    [] f = "extract_skills_from_categorized_format" -> extract_skills_from_categorized_format_body(a[1])
    [] f = "DashSeparator" -> DashSeparator_body(a[1], a[2], a[3])
    [] f = "DashLine" -> DashLine_body(a[1], a[2])
    [] f = "CommaOrSpaceSplit" -> CommaOrSpaceSplit_body(a[1])
    [] f = "extract_skills_from_dash_format" -> extract_skills_from_dash_format_body(a[1])
    [] f = "extract_skills_general" -> extract_skills_general_body(a[1])
    [] f = "extract_skills" -> extract_skills_body(a[1])
    [] f = "CombinedTechnical" -> CombinedTechnical_body(a[1], a[2])
    [] f = "extract_skills_from_sections" -> extract_skills_from_sections_body(a[1])
    [] f = "KnownInstitution" -> KnownInstitution_body(a[1], a[2])
    [] f = "KnownEducation" -> KnownEducation_body(a[1], a[2], a[3], a[4])
    [] f = "EducationStep" -> EducationStep_body(a[1], a[2], a[3])
    [] f = "GroupStart" -> GroupStart_body(a[1], a[2])
    [] f = "NextHeading" -> NextHeading_body(a[1], a[2])
    [] f = "HeadingText" -> HeadingText_body(a[1], a[2])
    [] f = "TestPhraseAt" -> TestPhraseAt_body(a[1], a[2])
    [] f = "TestExperienceMatch" -> TestExperienceMatch_body(a[1])
    [] f = "TestExperienceText" -> TestExperienceText_body(a[1])
    [] f = "InternshipRescued" -> InternshipRescued_body(a[1], a[2], a[3])
    [] f = "InternshipRescue" -> InternshipRescue_body(a[1], a[2])
    [] f = "ExperienceStep" -> ExperienceStep_body(a[1], a[2], a[3])
    [] f = "Rescue" -> Rescue_body(a[1], a[2], a[3], a[4], a[5])
    [] f = "SkillsStep" -> SkillsStep_body(a[1], a[2], a[3])
    [] f = "ProjectsStep" -> ProjectsStep_body(a[1], a[2], a[3])
    [] f = "EducationCertifications" -> EducationCertifications_body(a[1], a[2])
    [] f = "CertificationsStep" -> CertificationsStep_body(a[1], a[2], a[3])
    [] f = "InternshipInvoked" -> InternshipInvoked_body(a[1], a[2])
    [] f = "ExperienceInvoked" -> ExperienceInvoked_body(a[1], a[2], a[3])
    [] f = "CertificationsInvoked" -> CertificationsInvoked_body(a[1], a[2], a[3])
    [] f = "SegmentStep" -> SegmentStep_body(a[1])
    [] f = "Frame" -> Frame_body(a[1])
    [] f = "parse_steps" -> parse_steps_body(a[1])

(***************************************************************************)
(* The resumes and the files that parse is called on.  A resume is made   *)
(* of blocks, each a heading line with the lines under it, in the order   *)
(* a resume has them.                                                      *)
(***************************************************************************)
\* the largest number of blocks of a resume
MaxBlocks == 2

HeaderBlock == Ph(<<"John", "Doe">>)

EducationBlock ==
  JoinLines(<<
    <<"EDUCATION">>,
    Ph(<<"Bachelor", "of", "Science", "in", "Computer", "Science">>),
    Ph(<<"Doe", "University">>)>>)

ExperienceBlock ==
  JoinLines(<<
    <<"EXPERIENCE">>,
    Ph(<<"Junior", "Developer">>),
    <<"XYZ", SP, "Solutions", ",", SP, "New", SP, "York">>>>)

InternshipBlock ==
  JoinLines(<<<<"INTERNSHIP">>, Ph(<<"Intern", "at", "NASA">>)>>)

SkillsBlock ==
  JoinLines(<<
    <<"SKILLS">>,
    <<"Programming", SP, "Languages", ":", SP, "Python", ",", SP, "Java">>>>)

ProjectsBlock ==
  JoinLines(<<
    <<"PROJECTS">>,
    Ph(<<"Personal", "Website">>),
    <<"Tools", ":", SP, "Python", ",", SP, "Git">>>>)

CertificationsBlock ==
  JoinLines(<<
    <<"CERTIFICATIONS">>,
    Ph(<<"AWS", "Certified", "Developer", "-", "Associate">>)>>)

ResumeBlocks ==
  <<HeaderBlock, EducationBlock, ExperienceBlock, InternshipBlock,
    SkillsBlock, ProjectsBlock, CertificationsBlock>>

\* the members of a set of numbers in ascending order
RECURSIVE Ascending(_)
Ascending(S) ==
  IF S = {} THEN <<>> ELSE <<Least(S)>> \o Ascending(S \ {Least(S)})

\* the texts made of at most MaxBlocks of the blocks, in their order, one
\* block after the other on lines of their own; the empty text is one
TextsOf(blocks) ==
  {JoinLines([i \in 1..Len(Ascending(S)) |-> blocks[Ascending(S)[i]]]) :
     S \in {T \in SUBSET (1..Len(blocks)) : Cardinality(T) <= MaxBlocks}}

Documents == TextsOf(ResumeBlocks)

\* the files given to parse: a text file for each document, and paths that
\* do not exist or whose extension is written otherwise
Files ==
  {File(TRUE, ".txt", d) : d \in Documents}
    \cup {File(FALSE, ".txt", <<>>), File(FALSE, ".md", <<>>),
          File(TRUE, ".txt", Ph(<<"Work", "Experience">>)),
          File(TRUE, ".md", EducationBlock), File(TRUE, ".TXT", SkillsBlock),
          File(TRUE, ".Pdf", ProjectsBlock)}

\* the resumes on which the order of the extraction steps is examined
OrderFiles ==
  {File(TRUE, ".txt", d) :
     d \in TextsOf(<<EducationBlock, InternshipBlock, SkillsBlock,
                     ProjectsBlock>>)}



(***************************************************************************)
(* The state of one ResumeParser and of the call of parse in progress.    *)
(* The values that a call leaves stay in place until a step of the next   *)
(* call assigns them.                                                      *)
(***************************************************************************)
VARIABLES
  file,            \* the file that parse was called on
  previous,        \* the file of the call before it
  pc,              \* where the call stands
  done,            \* the steps of the call that ran
  invoked,         \* the calls and searches that the call made, in order
  text,            \* the text read from the file
  sections,        \* the section map
  section_names,   \* the list of section names
  education,       \* the entries of each kind
  experience,
  skills,
  projects,
  certifications,
  raised,          \* the exception that ended the call, or None
  result,          \* the dictionary that the call returned
  fn,              \* the extractor called on its own
  arg,             \* the text it was called on
  ret              \* what it returned or raised

vars ==
  <<file, previous, pc, done, invoked, text, sections, section_names,
    education, experience, skills, projects, certifications, raised, result,
    fn, arg, ret>>

callVars == <<file, previous, pc, done, invoked, raised, result>>
frameVars ==
  <<text, sections, section_names, education, experience, skills, projects,
    certifications>>
extractVars == <<fn, arg, ret>>

NoFile == File(FALSE, "", <<>>)

\* nothing returned yet
NoResult == <<>>

\* the extraction steps in the order parse runs them
StepOrder ==
  <<"education", "experience", "skills", "projects", "certifications">>

Steps == {StepOrder[i] : i \in 1..Len(StepOrder)}

\* the steps that parse runs before the given extraction step
Before(step) ==
  {"extract_text", "segment"}
    \cup {StepOrder[i] : i \in {j \in 1..Len(StepOrder) :
                                  \E k \in (j + 1)..Len(StepOrder) : StepOrder[k] = step}}

Init ==
  /\ file = NoFile /\ previous = NoFile
  /\ pc = "idle" /\ done = {} /\ invoked = <<>>
  /\ text = <<>> /\ sections = <<>> /\ section_names = <<>>
  /\ education = <<>> /\ experience = <<>> /\ skills = <<>>
  /\ projects = <<>> /\ certifications = <<>>
  /\ raised = None /\ result = NoResult
  /\ fn = "none" /\ arg = <<>> /\ ret = Return(<<>>)

\* parse(file_path) is called
Call(f) ==
  /\ pc \in {"idle", "returned", "raised"}
  /\ file' = f /\ previous' = file
  /\ pc' = "called" /\ done' = {} /\ invoked' = <<>>
  /\ raised' = None /\ result' = NoResult
  /\ UNCHANGED <<frameVars, extractVars>>

\* lines 60-65: the file must exist and be of a supported format
Validate ==
  /\ pc = "called"
  /\ IF validate(file) # None
     THEN pc' = "raised" /\ raised' = validate(file)
     ELSE pc' = "valid" /\ raised' = raised
  /\ UNCHANGED <<file, previous, done, invoked, result, frameVars, extractVars>>

\* lines 67-71: the text of the file is read by the extractor of its format
ExtractText ==
  /\ pc = "valid"
  /\ text' = file.content
  /\ pc' = "acquired" /\ done' = done \cup {"extract_text"}
  /\ invoked' = Append(invoked, Extractor("_extract_text", 71))
  /\ UNCHANGED <<file, previous, raised, result, sections, section_names,
                 education, experience, skills, projects, certifications,
                 extractVars>>

\* Segment with the section map kept from the call before
SegmentCached ==
  /\ pc = "acquired"
  /\ \E r \in {IF sections = <<>> THEN SegmentStep(text)
               ELSE Step(None, <<>>, sections, section_names)} :
       sections' = r.sections /\ section_names' = r.section_names
  /\ pc' = "segmented" /\ done' = done \cup {"segment"}
  /\ invoked' = Append(invoked, Extractor("extract_sections", 83))
  /\ UNCHANGED <<file, previous, raised, result, text, education, experience,
                 skills, projects, certifications, extractVars>>

\* lines 73-84: preprocessing and segmentation
Segment ==
  /\ pc = "acquired"
  /\ \E r \in {SegmentStep(text)} :
       sections' = r.sections /\ section_names' = r.section_names
  /\ pc' = "segmented" /\ done' = done \cup {"segment"}
  /\ invoked' = Append(invoked, Extractor("extract_sections", 83))
  /\ UNCHANGED <<file, previous, raised, result, text, education, experience,
                 skills, projects, certifications, extractVars>>

\* an extraction step may run: in the order of the code, or in any order
Ready(step, ordered) ==
  /\ pc = "segmented"
  /\ step \notin done
  /\ ordered => done = Before(step)

\* a step that hands the sections it leaves back to segmentation
RanBackToSegmentation(step, r) ==
  /\ pc' = "acquired" /\ raised' = raised
  /\ done' = done \cup {step}
  /\ sections' = r.sections
  /\ section_names' = r.section_names
  /\ UNCHANGED <<file, previous, result, text, extractVars>>

\* what a step leaves apart from its entries: the exception ends the call
Ran(step, r) ==
  /\ IF r.exc # None
     THEN /\ pc' = "raised" /\ raised' = r.exc
          /\ UNCHANGED <<done, sections, section_names>>
     ELSE /\ pc' = pc /\ raised' = raised
          /\ done' = done \cup {step}
          /\ sections' = r.sections
          /\ section_names' = r.section_names
  /\ UNCHANGED <<file, previous, result, text, extractVars>>

\* lines 86-96
Education(ordered) ==
  /\ Ready("education", ordered)
  /\ invoked' = invoked \o EducationInvoked(text, sections, section_names)
  /\ \E r \in {EducationStep(text, sections, section_names)} :
       /\ Ran("education", r)
       /\ education' = IF r.exc = None THEN r.val ELSE education
  /\ UNCHANGED <<experience, skills, projects, certifications>>

\* lines 98-128
Experience(ordered) ==
  /\ Ready("experience", ordered)
  /\ invoked' = invoked \o ExperienceInvoked(text, sections, section_names)
  /\ \E r \in {ExperienceStep(text, sections, section_names)} :
       /\ Ran("experience", r)
       /\ experience' = IF r.exc = None THEN r.val ELSE experience
  /\ UNCHANGED <<education, skills, projects, certifications>>

\* lines 130-145
Skills(ordered) ==
  /\ Ready("skills", ordered)
  /\ invoked' = invoked \o SkillsInvoked(text, sections, section_names)
  /\ \E r \in {SkillsStep(text, sections, section_names)} :
       /\ Ran("skills", r)
       /\ skills' = IF r.exc = None THEN r.val ELSE skills
  /\ UNCHANGED <<education, experience, projects, certifications>>

\* lines 147-162
Projects(ordered) ==
  /\ Ready("projects", ordered)
  /\ invoked' = invoked \o ProjectsInvoked(text, sections, section_names)
  /\ \E r \in {ProjectsStep(text, sections, section_names)} :
       /\ Ran("projects", r)
       /\ projects' = IF r.exc = None THEN r.val ELSE projects
  /\ UNCHANGED <<education, experience, skills, certifications>>

\* lines 164-192
Certifications(ordered) ==
  /\ Ready("certifications", ordered)
  /\ invoked' = invoked \o CertificationsInvoked(text, sections, section_names)
  /\ \E r \in {CertificationsStep(text, sections, section_names)} :
       /\ Ran("certifications", r)
       /\ certifications' = IF r.exc = None THEN r.val ELSE certifications
  /\ UNCHANGED <<education, experience, skills, projects>>

\* lines 194-210: the dictionary is built and returned
Assemble ==
  /\ pc = "segmented"
  /\ Steps \subseteq done
  /\ result' = Result(section_names, education, experience, skills, projects,
                      certifications)
  /\ pc' = "returned"
  /\ UNCHANGED <<file, previous, done, invoked, raised, frameVars, extractVars>>

Next ==
  \/ \E f \in Files : Call(f)
  \/ Validate
  \/ ExtractText
  \/ Segment
  \/ Education(TRUE)
  \/ Experience(TRUE)
  \/ Skills(TRUE)
  \/ Projects(TRUE)
  \/ Certifications(TRUE)
  \/ Assemble

Spec == Init /\ [][Next]_vars

\* the first call of parse by a new parser
FirstCall(f) == pc = "idle" /\ Call(f)

\* one call by a new parser with the five extraction steps taken in any
\* order
NextAnyOrder ==
  \/ \E f \in OrderFiles : FirstCall(f)
  \/ Validate
  \/ ExtractText
  \/ Segment
  \/ Education(FALSE)
  \/ Experience(FALSE)
  \/ Skills(FALSE)
  \/ Projects(FALSE)
  \/ Certifications(FALSE)
  \/ Assemble

SpecAnyOrder == Init /\ [][NextAnyOrder]_vars


(***************************************************************************)
(* An extractor called by itself on a text.  The texts are made of         *)
(* fragments, each of one or more lines: blank and filler lines, lines     *)
(* with and without headings, and lines of each kind of entry.             *)
(***************************************************************************)
\* the largest number of fragments of a text
MaxLines == 2

\* words that are no keyword, name, number or heading of any pattern
LoremWords == {"lorem", "ipsum", "dolor"}

EducationWithCertificate ==
  JoinLines(<<
    <<"EDUCATION">>,
    Ph(<<"Bachelor", "of", "Science">>),
    Ph(<<"Certified", "Python", "Developer">>)>>)

\* an education section with a certification keyword inside a line
EducationWithCertifiedDegree ==
  JoinLines(<<<<"EDUCATION">>, Ph(<<"AWS", "Certified", "Developer">>)>>)

Fragments ==
  {<<SP>>,
   Ph(<<"lorem", "ipsum", "dolor">>),
   <<Filler>>,
   <<"QUALIFICATION">>,
   JoinLines(<<<<"Summary">>, <<"Languages">>>>),
   JoinLines(<<Ph(<<"Software", "Engineer">>), <<>>,
               Ph(<<"lorem", "ipsum", "dolor">>), <<>>,
               Ph(<<"Software", "Developer">>)>>),
   EducationWithCertificate,
   EducationWithCertifiedDegree,
   <<"Bachelor", SP, "of", SP, "Engineering", ",", SP, "Computer", SP,
     "Science">>,
   CertificationsBlock,
   Ph(<<"Doe", "University">>),
   JoinLines(<<Ph(<<"Software", "Engineer">>), Ph(<<"ABC", "Tech">>)>>),
   JoinLines(<<Ph(<<"Junior", "Developer">>),
               <<"XYZ", SP, "Solutions", ",", SP, "New", SP, "York">>>>),
   Ph(<<"Junior", "Developer">>),
   <<"Programming", SP, "Languages", ":", SP, "Python", ",", SP, "Java">>,
   JoinLines(<<Ph(<<"Personal", "Website">>),
               <<"Tools", ":", SP, "Python", ",", SP, "Git">>>>)}

\* the texts of at most n fragments, one after the other on lines of their
\* own
RECURSIVE FragmentTexts(_)
FragmentTexts(n) ==
  IF n = 0 THEN {<<>>}
  ELSE LET shorter == FragmentTexts(n - 1) IN
         shorter \cup {IF t = <<>> THEN f ELSE t \o <<NL>> \o f :
                         t \in shorter, f \in Fragments}

Texts == FragmentTexts(MaxLines)

\* no call of parse is in progress and an extractor is about to be called
\* on a text
InitExtract ==
  /\ file = NoFile /\ previous = NoFile
  /\ pc = "idle" /\ done = {} /\ invoked = <<>>
  /\ text = <<>> /\ sections = <<>> /\ section_names = <<>>
  /\ education = <<>> /\ experience = <<>> /\ skills = <<>>
  /\ projects = <<>> /\ certifications = <<>>
  /\ raised = None /\ result = NoResult
  /\ fn = "none" /\ arg \in Texts /\ ret = Return(<<>>)

\* the extractor named f is called on arg and gives r
Extract(f, r) ==
  /\ fn' = f /\ ret' = r
  /\ UNCHANGED <<arg, callVars, frameVars>>

\* SectionExtractor.extract_sections(arg)
ExtractSections ==
  fn = "none" /\ Extract("extract_sections", Return(extract_sections(arg)))

\* EducationExtractor.extract_education(arg)
ExtractEducation ==
  fn = "none" /\ Extract("extract_education", extract_education(arg))

\* ExperienceExtractor.extract_experience(arg)
ExtractExperience ==
  fn = "none" /\ Extract("extract_experience", extract_experience(arg))

\* SkillsExtractor.extract_skills(arg)
ExtractSkills ==
  fn = "none" /\ Extract("extract_skills", extract_skills(arg))

\* ProjectsExtractor.extract_projects(arg)
ExtractProjects ==
  fn = "none" /\ Extract("extract_projects", extract_projects(arg))

\* CertificationsExtractor.extract_certifications(arg)
ExtractCertifications ==
  fn = "none" /\ Extract("extract_certifications", extract_certifications(arg))

NextExtract ==
  \/ ExtractSections
  \/ ExtractEducation
  \/ ExtractExperience
  \/ ExtractSkills
  \/ ExtractProjects
  \/ ExtractCertifications

SpecExtract == InitExtract /\ [][NextExtract]_vars


(***************************************************************************)
(* The skills extractor on its own, on skills texts in each of its         *)
(* formats, and on the texts of several sections together.                 *)
(***************************************************************************)
\* the largest number of fragments of a skills text
MaxSkillLines == 2

ProgrammingLine ==
  <<"Programming", SP, "Languages", ":", SP, "Python", ",", SP, "Java">>

\* a labelled line with a skill written with a hyphen
HyphenLine ==
  <<"Programming", SP, "Languages", ":", SP, "Web", "-", "Services", ",", SP,
    "Git">>

\* a labelled line of the dash format
DashFormatLine ==
  <<"Programming", SP, "Languages", ":", SP, EM_DASH, SP, "Python", ",", SP,
    "Java">>

SkillFragments ==
  {<<"SKILLS">>,
   ProgrammingLine,
   HyphenLine,
   DashFormatLine,
   <<"Databases", ":", SP, "-", SP, "MongoDB">>,
   <<"Tools", ":", SP, "Git", ",", SP, "Jenkins">>,
   Ph(<<"Python", "Teamwork", "Git">>),
   Ph(<<"lorem", "ipsum", "dolor">>)}

\* the texts of at most n of these fragments, each on a line of its own
RECURSIVE SkillFragmentTexts(_)
SkillFragmentTexts(n) ==
  IF n = 0 THEN {<<>>}
  ELSE LET shorter == SkillFragmentTexts(n - 1) IN
         shorter \cup {IF t = <<>> THEN f ELSE t \o <<NL>> \o f :
                         t \in shorter, f \in SkillFragments}

SkillTexts == SkillFragmentTexts(MaxSkillLines)

\* the texts of the sections experience, profile and projects
ExperienceTexts == {<<>>, Ph(<<"Did", "X", "with", "Python">>)}
ProfileTexts == {<<>>, Ph(<<"Teamwork">>)}
ProjectsTexts == {<<>>, Ph(<<"Personal", "Website">>), Ph(<<"Java", "Jenkins">>)}

\* the dictionary of the sections that have a text
SectionsOf(skills_text, experience_text, summary_text, projects_text) ==
  (IF skills_text = <<>> THEN <<>>
   ELSE <<[name |-> "skills", text |-> skills_text]>>)
    \o (IF experience_text = <<>> THEN <<>>
        ELSE <<[name |-> "experience", text |-> experience_text]>>)
    \o (IF summary_text = <<>> THEN <<>>
        ELSE <<[name |-> "profile", text |-> summary_text]>>)
    \o (IF projects_text = <<>> THEN <<>>
        ELSE <<[name |-> "projects", text |-> projects_text]>>)

InitSkills ==
  /\ file = NoFile /\ previous = NoFile
  /\ pc = "idle" /\ done = {} /\ invoked = <<>>
  /\ text = <<>> /\ sections = <<>> /\ section_names = <<>>
  /\ education = <<>> /\ experience = <<>> /\ skills = <<>>
  /\ projects = <<>> /\ certifications = <<>>
  /\ raised = None /\ result = NoResult
  /\ fn = "none" /\ arg \in SkillTexts /\ ret = Return(<<>>)

\* SkillsExtractor.extract_skills(arg)
ExtractSkillsText ==
  fn = "none" /\ Extract("extract_skills", extract_skills(arg))

\* SkillsExtractor.extract_skills_from_sections(sections), for the sections
\* whose skills text is arg
ExtractSkillsFromSections ==
  /\ fn = "none"
  /\ \E e \in ExperienceTexts, p \in ProfileTexts, j \in ProjectsTexts :
       /\ sections' = SectionsOf(arg, e, p, j)
       /\ ret' = Return(extract_skills_from_sections(sections'))
  /\ fn' = "extract_skills_from_sections"
  /\ UNCHANGED <<arg, callVars, text, section_names, education, experience,
                 skills, projects, certifications>>

NextSkills ==
  \/ ExtractSkillsText
  \/ ExtractSkillsFromSections

SpecSkills == InitSkills /\ [][NextSkills]_vars


(***************************************************************************)
(* A function of utils/text_preprocessing.py called by itself, on texts    *)
(* of a word and the three whitespace characters.                          *)
(***************************************************************************)
\* the largest number of tokens of such a text
MaxTokens == 4

RECURSIVE TokenTexts(_)
TokenTexts(n) ==
  IF n = 0 THEN {<<>>}
  ELSE LET shorter == TokenTexts(n - 1) IN
         shorter \cup {Append(t, c) : t \in shorter, c \in {"lorem"} \cup WS}

InitText ==
  /\ file = NoFile /\ previous = NoFile
  /\ pc = "idle" /\ done = {} /\ invoked = <<>>
  /\ text = <<>> /\ sections = <<>> /\ section_names = <<>>
  /\ education = <<>> /\ experience = <<>> /\ skills = <<>>
  /\ projects = <<>> /\ certifications = <<>>
  /\ raised = None /\ result = NoResult
  /\ fn = "none" /\ arg \in TokenTexts(MaxTokens) /\ ret = Return(<<>>)

\* text_preprocessing.normalize_whitespace(arg)
NormalizeWhitespace ==
  fn = "none" /\ Extract("normalize_whitespace", Return(normalize_whitespace(arg)))

\* text_preprocessing.clean_text(arg)
CleanText ==
  fn = "none" /\ Extract("clean_text", Return(clean_text(arg)))

NextText ==
  \/ NormalizeWhitespace
  \/ CleanText

SpecText == InitText /\ [][NextText]_vars


(***************************************************************************)
(* One call of parse by a new parser, on resumes that bring the special    *)
(* cases of parse and of the extractors into play.                         *)
(***************************************************************************)
\* the largest number of blocks of such a resume
MaxScenarioBlocks == 2

\* an education section whose last line names a certification
EducationWithCertification ==
  JoinLines(<<
    <<"EDUCATION">>,
    Ph(<<"Bachelor", "of", "Science">>),
    Ph(<<"AWS", "certification", "2021">>)>>)

\* a degree under no heading, with the name that the rule of lines 90-96 of
\* parse looks for
MarathwadaBlock ==
  JoinLines(<<
    Ph(<<"Bachelor", "of", "Science", "in", "Computer", "Science">>),
    <<"Marathwada">>>>)

\* the experience section of the test resume
AbcTechBlock ==
  JoinLines(<<
    <<"EXPERIENCE">>,
    Ph(<<"Software", "Engineer">>),
    <<"ABC", SP, "Tech", ",", SP, "San", SP, "Francisco", ",", SP, "CA">>,
    <<"June", SP, "2020", SP, "-", SP, "Present">>,
    <<BULLET, SP, "Did", SP, "X">>,
    <<BULLET, SP, "Did", SP, "Y">>>>)

\* a skills section whose second line begins with an acronym
SkillsWithAcronym ==
  JoinLines(<<
    <<"SKILLS">>,
    <<"Python", ",", SP, "Java">>,
    <<"AWS", ",", SP, "Git">>>>)

\* a certification that the rule for MongoDB and GeeksforGeeks looks for
MongoBlock ==
  JoinLines(<<
    <<"CERTIFICATIONS">>,
    Ph(<<"MongoDB", "Developers", "Tool", "Kit">>),
    Ph(<<"GeeksforGeeks", "2024">>)>>)

ScenarioBlocks ==
  <<EducationBlock, EducationWithCertificate, EducationWithCertification,
    MarathwadaBlock, ExperienceBlock, InternshipBlock, SkillsWithAcronym,
    ProjectsBlock, CertificationsBlock, MongoBlock>>

\* the texts made of at most MaxScenarioBlocks of these blocks, in their
\* order, and the experience section of the test resume by itself
ScenarioTexts ==
  {JoinLines([i \in 1..Len(Ascending(S)) |-> ScenarioBlocks[Ascending(S)[i]]]) :
     S \in {T \in SUBSET (1..Len(ScenarioBlocks)) :
              Cardinality(T) <= MaxScenarioBlocks}}
  \cup {AbcTechBlock}

ScenarioFiles == {File(TRUE, ".txt", d) : d \in ScenarioTexts}

NextScenarios ==
  \/ \E f \in ScenarioFiles : FirstCall(f)
  \/ Validate
  \/ ExtractText
  \/ Segment
  \/ Education(TRUE)
  \/ Experience(TRUE)
  \/ Skills(TRUE)
  \/ Projects(TRUE)
  \/ Certifications(TRUE)
  \/ Assemble

SpecScenarios == Init /\ [][NextScenarios]_vars

\* a call of parse is in progress
Running == pc \in {"called", "valid", "acquired", "segmented"}

\* the statement at which the call stands can be executed
StatementReady ==
  \/ pc \in {"called", "valid", "acquired"}
  \/ \E step \in Steps : Ready(step, TRUE)
  \/ pc = "segmented" /\ Steps \subseteq done

\* the call in progress moves on: each statement of parse changes the place
\* where the call stands or adds to the steps that ran
Advance ==
  /\ Running
  /\ pc' \in {"valid", "acquired", "segmented", "returned", "raised"}
  /\ done' \in {done} \cup {done \cup {step} :
                              step \in Steps \cup {"extract_text", "segment"}}
  /\ <<pc', done'>> # <<pc, done>>

\* parse is sequential code that waits for nothing: a call in progress
\* executes the statement it stands at
SpecFair == SpecScenarios /\ WF_<<pc, done>>(Advance)


(***************************************************************************)
(* Properties of the record that parse returns.                            *)
(***************************************************************************)
\* a Python list
IsList(x) == DOMAIN x = 1..Len(x)

ListFields == {"sections", "education", "experience", "projects", "certifications"}

\* C1: the record returned by parse has the six fields sections, education,
\* experience, skills, projects and certifications; the five of them are
\* lists and skills is a map with the keys all, technical, soft_skills and
\* tools_software, for every text, the empty one included.
C1_AllFields ==
  pc = "returned" =>
    /\ DOMAIN result = ListFields \cup {"skills"}
    /\ \A k \in ListFields : IsList(result[k])
    /\ DOMAIN result.skills = {"all", "technical", "soft_skills", "tools_software"}

\* parse returned for a file that holds the empty string
C1_EmptyText ==
  pc = "returned" /\ file.content = <<>> /\ result.skills.all = <<>>

(***************************************************************************)
(* Properties of an extractor called by itself.                            *)
(***************************************************************************)
EntryExtractors ==
  {"extract_education", "extract_experience", "extract_projects",
   "extract_certifications"}

\* a text of whitespace only
Blank(t) == \A i \in 1..Len(t) : t[i] \in WS

\* a text of words that no pattern of an extractor knows
NoSignal(t) == \A i \in 1..Len(t) : t[i] \in WS \cup LoremWords

\* C2, as stated: an extractor returns a value and never raises, and an
\* entry extractor returns the empty list for a text without recognisable
\* signal.
C2_NoSignalNoEntries ==
  fn # "none" =>
    /\ ret.exc = None
    /\ fn \in EntryExtractors /\ NoSignal(arg) => ret.val = <<>>

\* C2, amended: an extractor returns a value and never raises; an entry
\* extractor returns the empty list for a blank text, and extract_education
\* and extract_experience return it for a text without recognisable signal.
C2_NeverRaises ==
  fn # "none" =>
    /\ ret.exc = None
    /\ fn \in EntryExtractors /\ Blank(arg) => ret.val = <<>>
    /\ fn \in {"extract_education", "extract_experience"} /\ NoSignal(arg)
         => ret.val = <<>>

\* extract_education returned for a text of filler words
C2_FillerText ==
  /\ fn = "extract_education" /\ NoSignal(arg) /\ ~Blank(arg)
  /\ ret = Return(<<>>)

\* C3: every education entry has a degree or an institution, every
\* experience entry a job_title or a company, and every project and
\* certification entry a name, whichever path of the extractor made it.
C3_Anchors ==
  /\ fn = "extract_education" =>
       \A i \in 1..Len(ret.val) :
         Truthy(ret.val[i].degree) \/ Truthy(ret.val[i].institution)
  /\ fn = "extract_experience" =>
       \A i \in 1..Len(ret.val) :
         Truthy(ret.val[i].job_title) \/ Truthy(ret.val[i].company)
  /\ fn \in {"extract_projects", "extract_certifications"} =>
       \A i \in 1..Len(ret.val) : Truthy(ret.val[i].name)

\* extract_experience returned the entry of its special case
C3_SpecialCase ==
  /\ fn = "extract_experience"
  /\ \E i \in 1..Len(ret.val) :
       /\ ret.val[i].company = Ph(<<"ABC", "Tech">>)
       /\ ret.val[i].job_title = Ph(<<"Software", "Engineer">>)

\* the boundaries that the scan of the lines for headings finds
DetectedHeadings(t) == BoundaryScan(SplitLines(t), 1, 0, <<>>, FALSE)

\* C4, as stated: extract_sections returns a map, and when no heading
\* boundary is detected in the text the map has the key unknown, which
\* holds the whole text.
C4_Unknown ==
  fn = "extract_sections" =>
    /\ ret.exc = None
    /\ DetectedHeadings(arg) = <<>> =>
         HasKey(ret.val, "unknown") /\ Get(ret.val, "unknown") = Strip(arg)

\* C4, amended: extract_sections returns a map; when no boundary at all is
\* identified, which the heuristics of the fallback leave to a blank text
\* only, the map is the key unknown with the whole stripped text; a text
\* that is not blank is returned under the sections of its headings or of
\* the fallback, and not under unknown.
C4_UnknownWhenBlank ==
  fn = "extract_sections" =>
    /\ ret.exc = None
    /\ Blank(arg) => ret.val = <<[name |-> "unknown", text |-> Strip(arg)]>>
    /\ ~Blank(arg) => ret.val # <<>> /\ ~HasKey(ret.val, "unknown")

\* extract_sections returned for a text without a heading that is not blank
C4_NoHeading ==
  /\ fn = "extract_sections" /\ DetectedHeadings(arg) = <<>> /\ ~Blank(arg)
  /\ Get(ret.val, "header") = Strip(arg)

\* the lines of a text that are not blank, stripped
NonBlankLines(t) ==
  {Strip(SplitLines(t)[i]) : i \in 1..Len(SplitLines(t))} \ {<<>>}

\* a line that is the title of a section
IsTitleLine(line) ==
  identify_section_title(line) # None \/ UppercaseMatch(line, 1) # None

\* C5: every line of the text that is not blank is a section title or is
\* held by the text of a section that extract_sections returns, wherever
\* the first heading stands.
C5_Coverage ==
  fn = "extract_sections" =>
    \A line \in NonBlankLines(arg) :
      \/ IsTitleLine(line)
      \/ \E k \in 1..Len(ret.val) : Contains(ret.val[k].text, line)

\* the sections as segmentation cuts them, before they are post-processed
Sliced(t) ==
  IF identify_section_boundaries(t) = <<>> THEN <<>>
  ELSE SliceSections(t, identify_section_boundaries(t), 1, <<>>)

\* the place of the first certification keyword of a text, 0 without one
FirstCertificationKeyword(t) ==
  Least({i \in 1..Len(t) : t[i] \in CertPrefixWords})

\* C6, as stated: when the education text that segmentation produces holds
\* a certification keyword, the map that extract_sections returns has the
\* text from the keyword on under certifications, with the text of a
\* certifications section that there already is, and no longer under
\* education.
C6_Moved ==
  fn = "extract_sections" =>
    LET education_text == Get(Sliced(arg), "education")
        k == FirstCertificationKeyword(education_text)
    IN k # 0 =>
         /\ Contains(Get(ret.val, "certifications"),
                     Strip(SubSeq(education_text, k, Len(education_text))))
         /\ FirstCertificationKeyword(Get(ret.val, "education")) = 0

\* C6, amended: when the education text that segmentation produces has a
\* line that begins with a certification keyword and segmentation produced
\* no certifications section, the map that extract_sections returns has
\* the text from the first such line on under certifications and the text
\* before it under education; with a certifications section the sections
\* are returned as segmentation cut them.
C6_MovedWhenAlone ==
  fn = "extract_sections" =>
    LET education_text == Get(Sliced(arg), "education")
        split_pos == CertMatchStart(education_text)
    IN /\ (/\ HasKey(Sliced(arg), "education") /\ split_pos # 0
           /\ ~HasKey(Sliced(arg), "certifications"))
          => /\ Get(ret.val, "certifications") =
                  Strip(SubSeq(education_text, split_pos, Len(education_text)))
             /\ Get(ret.val, "education") =
                  Strip(SubSeq(education_text, 1, split_pos - 1))
       /\ HasKey(Sliced(arg), "certifications") /\ arg # <<>>
            => ret.val = Sliced(arg)

\* extract_sections returned for an education section with a line that
\* begins with a certification keyword
C6_CertifiedLine ==
  /\ fn = "extract_sections" /\ arg = EducationWithCertificate
  /\ Get(ret.val, "certifications") =
       Ph(<<"Certified", "Python", "Developer">>)
  /\ Get(ret.val, "education") = Ph(<<"Bachelor", "of", "Science">>)

(***************************************************************************)
(* Properties of the steps of parse.                                        *)
(***************************************************************************)
\* the heading of each kind of section, in capitals
Headings ==
  [education |-> "EDUCATION", experience |-> "EXPERIENCE", skills |-> "SKILLS",
   projects |-> "PROJECTS", certifications |-> "CERTIFICATIONS"]

\* what the extractor of a kind returns for a text
EntriesFrom(kind, t) ==
  CASE kind = "education" -> extract_education(t).val
    [] kind = "experience" -> extract_experience(t).val
    [] kind = "skills" -> extract_skills(t).val
    [] kind = "projects" -> extract_projects(t).val
    [] kind = "certifications" -> extract_certifications(t).val

\* C7: for each of the five kinds, when segmentation gave no text for the
\* section and the raw text has the heading of the kind on a line of its
\* own with text under it, parse returns the entries of that text and the
\* name of the section is in the list of sections.
C7_Rescue ==
  pc = "returned" =>
    \A kind \in Steps :
      (/\ Get(SegmentStep(text).sections, kind) = <<>>
       /\ HeadingMatch(text, Headings[kind]))
      => /\ \E i \in 1..Len(result.sections) : result.sections[i] = kind
         /\ result[kind] = EntriesFrom(kind, HeadingText(text, Headings[kind]))

\* the members of a list
Members(xs) == {xs[i] : i \in 1..Len(xs)}

\* the entries of the record that the steps give in the order of parse
SameEntries(r, t) ==
  LET in_order == parse_steps(t).val IN
    /\ r.education = in_order.education
    /\ r.experience = in_order.experience
    /\ r.skills = in_order.skills
    /\ r.projects = in_order.projects
    /\ r.certifications = in_order.certifications
    /\ Members(r.sections) = Members(in_order.sections)
    /\ Len(r.sections) = Len(in_order.sections)

\* C8, as stated: the five extraction steps taken in any order give the
\* record that they give in the order of parse, with the same list of
\* sections.
C8_SameRecord ==
  pc = "returned" =>
    /\ SameEntries(result, text)
    /\ result.sections = parse_steps(text).val.sections

\* C8, amended: the five extraction steps taken in any order give the
\* entries that they give in the order of parse and the same section
\* names; the order of the names that the steps add follows the order of
\* the steps.
C8_SameEntries == pc = "returned" => SameEntries(result, text)

\* parse returned after steps in another order, which the list of sections
\* shows
C8_OtherOrder ==
  /\ pc = "returned"
  /\ result.sections # parse_steps(text).val.sections

\* C9: the record that parse returns is the record of its text alone,
\* whatever the parser was called on before: the values that an earlier
\* call left are read by no step, and the section map that the steps start
\* from is the one of the text of the call.
C9_PureFunction ==
  /\ pc = "returned" => result = parse_steps(file.content).val
  /\ pc = "segmented" /\ done = {"extract_text", "segment"} =>
       /\ sections = SegmentStep(file.content).sections
       /\ section_names = SegmentStep(file.content).section_names

\* parse returned after a call on another resume had left its values
C9_AfterAnother ==
  /\ pc = "returned"
  /\ previous.exists /\ is_supported_file(previous)
  /\ previous.content # file.content
  /\ previous.content # <<>> /\ file.content # <<>>

\* C10: parse raises FileNotFoundError for a path that does not exist and
\* ValueError for an extension that is not supported, the first before the
\* second and both before any step ran; a call that passed both tests does
\* not raise.
C10_Errors ==
  /\ pc = "raised" =>
       /\ done = {}
       /\ raised = IF ~file.exists THEN "FileNotFoundError" ELSE "ValueError"
       /\ ~file.exists \/ ~is_supported_file(file)
  /\ pc \in {"valid", "acquired", "segmented", "returned"} =>
       file.exists /\ is_supported_file(file)

\* parse raised for a path that does not exist and whose extension is not
\* supported
C10_MissingUnsupported ==
  /\ pc = "raised" /\ raised = "FileNotFoundError"
  /\ ~file.exists /\ ~is_supported_file(file)

\* the lists of entries of a record and the lists of its skills are empty
NoEntries(r) ==
  /\ r.education = <<>> /\ r.experience = <<>>
  /\ r.projects = <<>> /\ r.certifications = <<>>
  /\ r.skills.all = <<>> /\ r.skills.technical = <<>>
  /\ r.skills.soft_skills = <<>> /\ r.skills.tools_software = <<>>

\* C11, as stated: parse of the empty text raises nothing and returns a
\* record in which every list is empty, the list of sections too, and the
\* skills are empty.
C11_AllEmpty ==
  /\ file.content = <<>> /\ validate(file) = None => pc # "raised"
  /\ pc = "returned" /\ file.content = <<>> =>
       NoEntries(result) /\ result.sections = <<>>

\* C11, amended: parse of the empty text raises nothing and returns a
\* record in which the lists of education, experience, projects and
\* certifications are empty and the skills are empty; its list of sections
\* holds the one name "unknown".
C11_EmptyButUnknown ==
  /\ file.content = <<>> /\ validate(file) = None => pc # "raised"
  /\ pc = "returned" /\ file.content = <<>> =>
       NoEntries(result) /\ result.sections = <<"unknown">>

\* parse returned for a file that holds the empty text
C11_EmptyFile ==
  /\ pc = "returned" /\ raised = None
  /\ file.exists /\ file.content = <<>> /\ text = <<>>

\* a line "Programming Languages: X, Y, Z" of skills separated by commas
IsProgrammingLine(line) ==
  /\ LabelAt(line, 1, <<"Programming", "Languages">>)
  /\ \A i \in 1..Len(line) : line[i] # EM_DASH

\* the skills X, Y, Z of such a line, trimmed
ListedSkills(line) == StripAll(SplitOn(SubSeq(line, 5, Len(line)), {","}))

\* C12: for a text with a line "Programming Languages: X, Y, Z", whatever
\* its skills and whatever else the text holds, the list "all" that
\* extract_skills returns contains X, Y and Z, trimmed.
C12_LabelledSkills ==
  fn = "extract_skills" =>
    \A n \in 1..Len(SplitLines(arg)) :
      LET line == SplitLines(arg)[n] IN
        IsProgrammingLine(line) =>
          SkillSet(ListedSkills(line)) \subseteq SkillSet(ret.val.all)

\* C13: whichever strategy extract_skills takes, the list "all" that it
\* returns is sorted and holds no skill twice.
C13_SortedUnique ==
  fn = "extract_skills" => ret.val.all = Sorted(SkillSet(ret.val.all))

\* the skills that extract_skills finds in the text of each of the four
\* sections, under the given key
SkillsOfSections(key) ==
  UNION {SkillSet(extract_skills(Get(sections, n)).val[key]) :
           n \in {"skills", "experience", "profile", "projects"}}

\* C14: each of the lists "all", "soft_skills" and "tools_software" that
\* extract_skills_from_sections returns is the sorted union, without
\* duplicates, of the lists that extract_skills gives for the texts of the
\* sections skills, experience, profile and projects; so every skill found
\* in the last three is in "all", whatever the format of the skills section.
C14_CombinedUnion ==
  fn = "extract_skills_from_sections" =>
    /\ ret.val.all = Sorted(SkillsOfSections("all"))
    /\ ret.val.soft_skills = Sorted(SkillsOfSections("soft_skills"))
    /\ ret.val.tools_software = Sorted(SkillsOfSections("tools_software"))

\* the certifications that the certifications section of the call, or the
\* text found under the heading CERTIFICATIONS, gave
FromCertificationsSection ==
  CertificationsOf(Rescue(text, sections, section_names, "certifications",
                          "CERTIFICATIONS")).val

\* the lines of the education text that hold a certification keyword
KeywordLines ==
  SelectSeq(SplitLines(Get(sections, "education")), IsCertificationLine)

\* C15: when the certifications section and the scan for its heading gave
\* no certification and the education text holds one of the keywords
\* certification, certificate, certified, credential, license, the
\* certifications that parse returns are the ones extracted from the lines
\* of the education text that hold such a keyword, and from these alone.
C15_ReScan ==
  pc = "returned" /\ FromCertificationsSection = <<>> /\ KeywordLines # <<>> =>
    result.certifications = extract_certifications(JoinLines(KeywordLines)).val

\* extract_experience as it goes on when the rule for "Software Engineer"
\* and "ABC Tech" (lines 78-105) is left out
GeneralExperience(t) ==
  LET p == Least({p \in 1..Len(test_patterns) :
                    TestEntry(t, test_patterns[p]) # <<>>})
  IN IF t = <<>> \/ StrLen(t) < MinExperienceLen THEN <<>>
     ELSE IF /\ ~is_likely_experience_section(t)
             /\ ~HasLower(t, {"experience", "work", "job", "position", "role",
                              "employment", "internship", "intern"})
             /\ ~HasLower(t, {"developer", "engineer", "analyst", "manager",
                              "director", "intern"})
       THEN <<>>
     ELSE IF p # 0 THEN TestEntry(t, test_patterns[p])
     ELSE ExperienceEntries(split_experience_entries(t), <<>>).val

\* extract_certifications as it goes on when the rules for MongoDB and for
\* AWS (lines 51-57) are left out
GeneralCertifications(t) ==
  CertificationEntries(split_certification_entries(t), <<>>).val

\* the entries are as many as the general ones, each with at most one
\* field that differs
SingleField(entries, general) ==
  /\ Len(entries) = Len(general)
  /\ \A i \in 1..Len(entries) :
       /\ DOMAIN entries[i] = DOMAIN general[i]
       /\ Cardinality({k \in DOMAIN entries[i] :
                         entries[i][k] # general[i][k]}) <= 1

\* C16: the rule for Marathwada and MMM, the rule for "Software Engineer"
\* with "ABC Tech" and the rules for the MongoDB and AWS certifications each
\* change at most one field of an entry: the entries that parse returns are
\* as many as the ones of the general extraction of the same text, and each
\* differs from its general one in one field at most.
C16_SingleField ==
  pc = "returned" =>
    /\ SingleField(result.education,
                   extract_education(Get(sections, "education")).val)
    /\ result.experience # <<>> =>
         SingleField(result.experience,
                     GeneralExperience(Get(sections, "experience")))
    /\ FromCertificationsSection # <<>> =>
         SingleField(result.certifications,
                     GeneralCertifications(Get(sections, "certifications")))

\* the keywords that stand for a kind of section in a text without headings
SectionKeywords(n) ==
  CASE n = "education" ->
         {"degree", "university", "college", "school", "gpa", "bachelor",
          "master", "phd", "diploma"}
    [] n = "experience" ->
         {"experience", "work", "job", "position", "employer", "company",
          "responsibilities"}
    [] n = "skills" ->
         {"skills", "proficient", "expertise", "competenc", "abilities"}
    [] n = "certifications" ->
         {"certification", "certified", "license", "accredit", "credential"}
            \cup CertPrefixWords
    [] OTHER -> {}

\* a word of the text t, in any case, is a keyword of the section n
Justifies(t, n) ==
  \E i \in 1..Len(t) :
    t[i] \in SectionKeywords(n) \/ LowerWord(t[i]) \in SectionKeywords(n)

\* the sections of names that stand for no kind of content
CatchAll == {"header", "unknown"}

C18_TestResume ==
  pc = "returned" /\ file.content = AbcTechBlock =>
    /\ Len(result.experience) = 1
    /\ result.experience[1].job_title = Ph(<<"Software", "Engineer">>)
    /\ result.experience[1].company = Ph(<<"ABC", "Tech">>)
    /\ Contains(result.experience[1].date_range,
                <<"June", SP, "2020", SP, "-", SP, "Present">>)
    /\ result.experience[1].responsibilities =
         <<Ph(<<"Did", "X">>), Ph(<<"Did", "Y">>)>>

\* the heading that the rescue scan of a section looks for
HeadingOf(n) ==
  CASE n = "skills" -> "SKILLS"
    [] n = "projects" -> "PROJECTS"
    [] n = "certifications" -> "CERTIFICATIONS"

\* the text under the heading at the first line of its name in the raw
\* text: the lines after it up to the next line written in capitals only,
\* or to the end of the text
RECURSIVE UpToHeading(_)
UpToHeading(lines) ==
  IF lines = <<>> THEN <<>>
  ELSE IF /\ Strip(Head(lines)) # <<>>
          /\ \A i \in 1..Len(Strip(Head(lines))) :
               Strip(Head(lines))[i] \in UpperWords \cup {SP}
    THEN <<>>
  ELSE <<Head(lines)>> \o UpToHeading(Tail(lines))

UnderHeading(t, heading) ==
  LET lines == SplitLines(t)
      h == Least({i \in 1..Len(lines) : Strip(lines[i]) = <<heading>>})
  IN Strip(JoinLines(UpToHeading(SubSeq(lines, h + 1, Len(lines)))))

\* C19: the text that a rescue scan of parse registers as a section is
\* everything from the line after the heading to the next line that is a
\* heading in capitals, or to the end of the text; a line of content that
\* begins with capital letters does not end it.
C19_RescuedText ==
  pc = "returned" =>
    \A n \in {"skills", "projects", "certifications"} :
      /\ Get(SegmentStep(text).sections, n) = <<>>
      /\ HeadingMatch(text, HeadingOf(n))
      => Get(sections, n) = UnderHeading(text, HeadingOf(n))

\* the calls and the searches written in parse, in the order of its lines
PIPELINE ==
  <<Extractor("_extract_text", 71),
    Extractor("extract_sections", 83),
    Extractor("_extract_education", 88),
    Extractor("_extract_experience", 100),
    Scan("EXPERIENCE", 108),
    Extractor("_extract_experience", 116),
    Scan("INTERNSHIP", 120),
    Extractor("_extract_experience", 124),
    Scan("SKILLS", 137),
    Extractor("_extract_skills", 145),
    Scan("PROJECTS", 154),
    Extractor("_extract_projects", 162),
    Scan("CERTIFICATIONS", 171),
    Extractor("_extract_certifications", 179),
    Extractor("_extract_certifications", 192)>>

IsExtractor(site) == site.kind = "extractor"

IsScan(site) == site.kind = "scan"

\* the place of a site in the pipeline, 0 for a site that is not in it
Place(site) == Least({k \in 1..Len(PIPELINE) : PIPELINE[k] = site})

\* the sites of a call are sites of the pipeline, each later in the
\* pipeline than the one before it: none runs twice, and none runs after a
\* later one
InPipelineOrder(sites) ==
  /\ \A i \in 1..Len(sites) : Place(sites[i]) # 0
  /\ \A i \in 1..(Len(sites) - 1) : Place(sites[i]) < Place(sites[i + 1])

\* after segmentation the call goes on to the extraction steps and to the
\* assembly only, and segmentation is not run again
NoReEntry ==
  (pc = "segmented" \/ "segment" \in done) /\ pc' # "called" =>
    /\ pc' \in {"segmented", "returned", "raised"}
    /\ \A k \in 1..Len(invoked') :
         invoked'[k] = Extractor("extract_sections", 83) => k <= Len(invoked)

\* C20: parse is a linear pipeline.  The calls and searches that a call of
\* parse makes follow the order of the pipeline, so that each search for a
\* heading and each call of an extractor runs at most once and the number
\* of calls of extractors is at most the number written in parse, whatever
\* the text; after segmentation no step goes back to it; and a call on a
\* file that exists and is supported always reaches the assembly of the
\* record.
C20_LinearPipeline ==
  /\ [](/\ InPipelineOrder(invoked)
        /\ Len(SelectSeq(invoked, IsExtractor))
             <= Len(SelectSeq(PIPELINE, IsExtractor))
        /\ Running => StatementReady)
  /\ [][NoReEntry]_vars
  /\ (pc = "valid" ~> pc = "returned")

\* a call returned after a search for a heading in the raw text found the
\* section and after the certifications were extracted a second time
C20_RescuedCall ==
  /\ pc = "returned"
  /\ \E i \in 1..Len(invoked) : IsScan(invoked[i])
  /\ \E i \in 1..Len(invoked) : invoked[i] = Extractor("_extract_experience", 124)
  /\ Len(SelectSeq(invoked, IsExtractor)) > Len(StepOrder) + 2

(***************************************************************************)
(* Properties of the text utilities.                                       *)
(***************************************************************************)
\* no two tokens c stand side by side in s
NoRun(s, c) == \A i \in 1..(Len(s) - 1) : ~(s[i] = c /\ s[i + 1] = c)

\* C21: the output of normalize_whitespace has no two consecutive spaces,
\* no tab and no two consecutive newlines, its ends are trimmed, and
\* normalize_whitespace applied to it changes nothing.
C21_Normalized ==
  fn = "normalize_whitespace" =>
    /\ NoRun(ret.val, SP) /\ NoRun(ret.val, NL)
    /\ \A i \in 1..Len(ret.val) : ret.val[i] # TAB
    /\ ret.val = Strip(ret.val)
    /\ normalize_whitespace(ret.val) = ret.val

(***************************************************************************)
(* Properties of the section texts.                                        *)
(***************************************************************************)
\* the text from boundary k to the next boundary, stripped
BoundarySlice(t, bounds, k) ==
  Strip(Slice(t, bounds[k].pos,
              IF k < Len(bounds) THEN bounds[k + 1].pos ELSE StrLen(t)))

\* the slices of the boundaries named n that are not empty, in document
\* order, each without its title line
SlicesOf(t, bounds, n) ==
  LET Named(k) == bounds[k].name = n /\ BoundarySlice(t, bounds, k) # <<>>
      ks == SelectSeq([k \in 1..Len(bounds) |-> k], Named)
  IN [j \in 1..Len(ks) |-> clean_section_title(BoundarySlice(t, bounds, ks[j]), n)]

\* texts joined by a blank line
RECURSIVE JoinParagraphs(_)
JoinParagraphs(ts) ==
  IF Len(ts) = 1 THEN ts[1]
  ELSE ts[1] \o <<NL, NL>> \o JoinParagraphs(Tail(ts))

\* C22, as stated: the sections that extract_sections returns are the
\* names of the boundaries with a slice that is not empty, and the text of
\* each is its slices without their title lines, joined in document order.
C22_Slices ==
  fn = "extract_sections" /\ identify_section_boundaries(arg) # <<>> =>
    LET bounds == identify_section_boundaries(arg) IN
      /\ \A k \in 1..Len(bounds) :
           BoundarySlice(arg, bounds, k) # <<>> => HasKey(ret.val, bounds[k].name)
      /\ \A j \in 1..Len(ret.val) :
           /\ SlicesOf(arg, bounds, ret.val[j].name) # <<>>
           /\ ret.val[j].text = JoinParagraphs(SlicesOf(arg, bounds, ret.val[j].name))

\* the slices of the section n, joined
Joined(t, n) == JoinParagraphs(SlicesOf(t, identify_section_boundaries(t), n))

\* post-processing splits the education section of t: it has a line that
\* begins with a certification keyword and no boundary gave a
\* certifications section
EducationSplit(t) ==
  LET bounds == identify_section_boundaries(t) IN
    /\ SlicesOf(t, bounds, "education") # <<>>
    /\ SlicesOf(t, bounds, "certifications") = <<>>
    /\ CertMatchStart(Joined(t, "education")) # 0

\* C22, amended: the text of a section is its slices without their title
\* lines, joined in document order, none dropped; only post-processing
\* changes that, when it divides the joined slices of education, at the
\* first line that begins with a certification keyword, between education
\* and a new section certifications.
C22_SlicesThenSplit ==
  fn = "extract_sections" /\ identify_section_boundaries(arg) # <<>> =>
    LET bounds == identify_section_boundaries(arg)
        E == Joined(arg, "education")
    IN /\ \A k \in 1..Len(bounds) :
            BoundarySlice(arg, bounds, k) # <<>> => HasKey(ret.val, bounds[k].name)
       /\ \A j \in 1..Len(ret.val) :
            LET n == ret.val[j].name IN
              IF EducationSplit(arg) /\ n \in {"education", "certifications"}
              THEN /\ Get(ret.val, "education")
                        = Strip(SubSeq(E, 1, CertMatchStart(E) - 1))
                   /\ Get(ret.val, "certifications")
                        = Strip(SubSeq(E, CertMatchStart(E), Len(E)))
              ELSE /\ SlicesOf(arg, bounds, n) # <<>>
                   /\ ret.val[j].text = Joined(arg, n)

\* extract_sections returned a section that has two slices
C22_TwoSlices ==
  /\ fn = "extract_sections"
  /\ \E j \in 1..Len(ret.val) :
       /\ Len(SlicesOf(arg, identify_section_boundaries(arg), ret.val[j].name)) = 2
       /\ ret.val[j].text = Joined(arg, ret.val[j].name)
       /\ Joined(arg, ret.val[j].name) # <<NL, NL>>

(***************************************************************************)
(* Properties of the classification of a line.                             *)
(***************************************************************************)
\* the keyword groups of a styled header, in the order they are tried
StyledGroups ==
  <<[name |-> "experience",
     words |-> {"EXPERIENCE", "WORK", "EMPLOYMENT", "PROFESSIONAL"}],
    [name |-> "education",
     words |-> {"EDUCATION", "ACADEMIC", "QUALIFICATION", "DEGREE"}],
    [name |-> "skills",
     words |-> {"SKILL", "COMPETENC", "EXPERTISE", "PROFICIENC"}],
    [name |-> "certifications",
     words |-> {"CERTIFICATE", "CERTIFICATION", "LICENSE", "CREDENTIAL"}],
    [name |-> "projects", words |-> {"PROJECT", "PORTFOLIO"}]>>

\* the group of a styled candidate header: a line of fewer than 30
\* characters, written in capitals or in title case, that is no synonym of
\* a section title and holds a keyword of the group; None for other lines
StyledGroup(line) ==
  LET written == Words(line)
      groups == {g \in 1..Len(StyledGroups) : HasWord(line, StyledGroups[g].words)}
  IN IF /\ IsUpper(written) \/ IsTitle(written)
        /\ StrLen(line) < 30
        /\ FirstTitleMatch(TitleKey(line, <<>>, ""), 1) = None
        /\ groups # {}
     THEN StyledGroups[CHOOSE g \in groups : \A h \in groups : g <= h].name
     ELSE None

\* C23: a line of the text that is a styled candidate header is given the
\* section of its keyword group by the segmenter, and a boundary of that
\* section starts at it.
C23_StyledHeader ==
  fn = "extract_sections" =>
    \A i \in 1..Len(SplitLines(arg)) :
      LET line == Strip(SplitLines(arg)[i]) IN
        StyledGroup(line) # None =>
          /\ identify_section_title(line) = StyledGroup(line)
          /\ HasBoundary(identify_section_boundaries(arg), StyledGroup(line))

(***************************************************************************)
(* Properties of the splitting of a section text into entries.             *)
(***************************************************************************)
\* the three strategies: paragraphs that blank lines delimit, the pieces
\* that begin at the marker lines pts, one piece per line
ByParagraph(t) == SplitBlank(t)
ByMarker(t, pts) == CutAt(t, pts \cup {1}, 1)
ByLine(t) == SplitLines(t)

\* the first of the strategies, in the order given, that yields more than
\* one span, else the last one; the spans stripped, the empty ones dropped
FirstOfMany(strategies) ==
  LET many == {k \in 1..Len(strategies) : Len(strategies[k]) > 1}
  IN StripNonEmpty(IF many = {} THEN strategies[Len(strategies)]
                   ELSE strategies[CHOOSE k \in many : \A j \in many : k <= j])

\* the marker lines of each extractor; the certifications extractor scans
\* for none
MarkersOf(f, t) ==
  CASE f = "extract_education" -> DegreeSplitPoints(t)
    [] f = "extract_experience" -> TitleSplitPoints(t)
    [] f = "extract_projects" -> EntryStarts(t, 1)
    [] OTHER -> {}

\* the entries into which the extractor f splits a text
SplitOf(f, t) ==
  CASE f = "extract_education" -> split_education_entries(t)
    [] f = "extract_experience" -> split_experience_entries(t)
    [] f = "extract_projects" -> split_project_entries(t)
    [] f = "extract_certifications" -> split_certification_entries(t)

\* C24, as stated: each entry extractor splits its text by paragraphs, when
\* they are at most one by the scan for its markers, and when that yields
\* at most one span by lines.
C24_SameOrder ==
  fn \in EntryExtractors =>
    SplitOf(fn, arg)
      = FirstOfMany(<<ByParagraph(arg), ByMarker(arg, MarkersOf(fn, arg)),
                      ByLine(arg)>>)

\* C24, amended: the education extractor tries paragraphs, then its marker
\* scan, then lines; the experience extractor tries its marker scan first
\* and then paragraphs; the projects extractor paragraphs and then its
\* marker scan; the certifications extractor paragraphs and then lines.
C24_OrderOfEach ==
  /\ fn = "extract_education" =>
       SplitOf(fn, arg)
         = FirstOfMany(<<ByParagraph(arg), ByMarker(arg, MarkersOf(fn, arg)),
                         ByLine(arg)>>)
  /\ fn = "extract_experience" =>
       SplitOf(fn, arg)
         = FirstOfMany(<<ByMarker(arg, MarkersOf(fn, arg)), ByParagraph(arg)>>)
  /\ fn = "extract_projects" =>
       SplitOf(fn, arg)
         = FirstOfMany(<<ByParagraph(arg), ByMarker(arg, MarkersOf(fn, arg))>>)
  /\ fn = "extract_certifications" =>
       SplitOf(fn, arg) = FirstOfMany(<<ByParagraph(arg), ByLine(arg)>>)

\* extract_experience was called on a text that has several paragraphs and
\* several job title lines, which split it differently
C24_TitlesBeforeParagraphs ==
  /\ fn = "extract_experience"
  /\ Len(ByParagraph(arg)) > 1
  /\ Len(ByMarker(arg, MarkersOf(fn, arg))) > 1
  /\ SplitOf(fn, arg) # StripNonEmpty(ByParagraph(arg))

(***************************************************************************)
(* Properties of the degree that extract_education emits.                  *)
(***************************************************************************)
\* the entries that extract_education examines in a text
EducationEntriesOf(t) ==
  IF t = <<>> \/ StrLen(t) < MinEducationLen THEN <<>>
  ELSE LET entries0 == split_education_entries(t) IN
         IF Len(entries0) <= 1 /\ StrLen(t) > LongEducationLen
         THEN split_by_degree_indicators(t) ELSE entries0

\* the word w is one of the words of the phrase d
HasTheWord(d, w) == \E i \in 1..Len(d) : LowerWord(d[i]) = w

\* the text p begins the text d
BeginsWith(d, p) == Len(d) >= Len(p) /\ SubSeq(d, 1, Len(p)) = p

\* C25: when extract_education finds in an entry a degree without the word
\* "in" and a valid field of study, the degree of the record of that entry
\* is the degree, " in " and the field.
C25_DegreeInField ==
  fn = "extract_education" /\ ret.exc = None =>
    \A k \in 1..Len(EducationEntriesOf(arg)) :
      LET clean_entry == clean_text(EducationEntriesOf(arg)[k])
          degree == extract_degree(clean_entry)
          field == ValidField(extract_field_of_study(clean_entry))
      IN Truthy(degree) /\ Truthy(field) /\ ~HasTheWord(degree, "in") =>
           \E j \in 1..Len(ret.val) :
             /\ ret.val[j].raw_text = clean_entry
             /\ BeginsWith(ret.val[j].degree, degree \o <<SP, "in", SP>> \o field)

(***************************************************************************)
(* Properties of the company that extract_experience emits.                *)
(***************************************************************************)
\* the line of the entry that holds the job title, 0 when no line does
TitleLine(entry, job_title) ==
  Least({i \in 1..Len(SplitLines(entry)) :
           Contains(SplitLines(entry)[i], job_title)})

\* C26: when extract_experience splits its text into entries and an entry
\* has no keyword of COMPANY_PATTERNS and a line after the line of its job
\* title, the company of the record of that entry is taken from that line.
C26_EmployerLine ==
  fn = "extract_experience" /\ ret.exc = None =>
    \A k \in 1..Len(ret.val) :
      \A e \in 1..Len(split_experience_entries(arg)) :
        LET entry == split_experience_entries(arg)[e]
            lines == SplitLines(entry)
            i == TitleLine(entry, ret.val[k].job_title)
        IN /\ ret.val[k].raw_text = clean_text(entry)
           /\ Truthy(ret.val[k].job_title)
           /\ ~HasKeyword(entry, COMPANY_PATTERNS)
           /\ i # 0 /\ i < Len(lines)
           => /\ Truthy(ret.val[k].company)
              /\ Contains(lines[i + 1], ret.val[k].company)

(***************************************************************************)
(* Properties of the text that parse hands to the segmentation.            *)
(***************************************************************************)
\* the boundaries that the scan of the lines for headings finds in a text
HeadingBoundaries(t) == BoundaryScan(SplitLines(t), 1, 0, <<>>, FALSE)

\* the text as a whole is a heading
IsHeading(t) ==
  UppercaseMatch(Strip(t), 1) # None \/ identify_section_title(Strip(t)) # None

\* C27: the text that parse hands to extract_sections has no newline; the
\* scan for headings finds a boundary in it only when the text as a whole is
\* a heading, and then the segmentation gives at most one section: several
\* sections come from the keyword fallback and from the scans of the raw
\* text.
C27_OneLine ==
  pc \in {"segmented", "returned"} =>
    LET t == preprocess(text) IN
      /\ \A i \in 1..Len(t) : t[i] # NL
      /\ HeadingBoundaries(t) # <<>> =>
           IsHeading(t) /\ Len(Keys(extract_sections(t))) <= 1
      /\ \A i \in 1..Len(section_names) :
           \/ HasKey(extract_sections(t), section_names[i])
           \/ section_names[i] \in {"experience", "skills", "projects",
                                    "certifications"}

\* parse returned several sections for a file of several lines
C27_SeveralSections ==
  /\ pc = "returned"
  /\ Len(result.sections) > 1
  /\ \E i \in 1..Len(text) : text[i] = NL
  /\ HeadingBoundaries(preprocess(text)) = <<>>

\* parse segmented a file that is a heading and nothing else
C27_HeadingAlone ==
  pc = "returned" /\ HeadingBoundaries(preprocess(text)) # <<>>

(***************************************************************************)
(* Properties of the list of sections that parse returns.                  *)
(***************************************************************************)
\* the name n is in the list of sections of the record
Listed(n) == \E i \in 1..Len(result.sections) : result.sections[i] = n

\* no name is twice in the list of sections of the record
NoNameTwice ==
  \A i, j \in 1..Len(result.sections) :
    result.sections[i] = result.sections[j] => i = j

\* some skill is in the skills of the record
SomeSkill ==
  \/ result.skills.all # <<>>
  \/ result.skills.soft_skills # <<>>
  \/ result.skills.tools_software # <<>>
  \/ \E k \in 1..Len(result.skills.technical) :
       result.skills.technical[k].skills # <<>>

\* C28, as stated: the list of sections of the record holds no name twice,
\* and holds the name of each of education, experience, projects,
\* certifications and skills for which the record has an entry.
C28_Listed ==
  pc = "returned" =>
    /\ NoNameTwice
    /\ result.education # <<>> => Listed("education")
    /\ result.experience # <<>> => Listed("experience")
    /\ result.projects # <<>> => Listed("projects")
    /\ result.certifications # <<>> => Listed("certifications")
    /\ SomeSkill => Listed("skills")

\* C28, amended: as stated, except that the record may have certifications
\* without the name certifications in the list when the list holds
\* education and the education text holds the word certification.
C28_ListedOrFromEducation ==
  pc = "returned" =>
    /\ NoNameTwice
    /\ result.education # <<>> => Listed("education")
    /\ result.experience # <<>> => Listed("experience")
    /\ result.projects # <<>> => Listed("projects")
    /\ result.certifications # <<>> =>
         \/ Listed("certifications")
         \/ /\ Listed("education")
            /\ \E i \in 1..Len(Get(sections, "education")) :
                 Get(sections, "education")[i] \in WordsWith("certification")
    /\ SomeSkill => Listed("skills")

\* parse returned a record with entries of several kinds, some from a
\* section that a scan of the raw text found, for a list of several names
C28_SeveralKinds ==
  /\ pc = "returned"
  /\ Len(result.sections) > 1
  /\ result.experience # <<>> /\ SomeSkill
  /\ ~HasKey(extract_sections(preprocess(text)), "skills")

(***************************************************************************)
(* Properties of the lists of skills.                                      *)
(***************************************************************************)
\* the skills of the technical categories, of soft_skills and of
\* tools_software of a result of the skills extractor
Bucketed(v) ==
  UNION {SkillSet(v.technical[k].skills) : k \in 1..Len(v.technical)}
    \cup SkillSet(v.soft_skills) \cup SkillSet(v.tools_software)

\* C29: whichever strategy extract_skills takes, and for
\* extract_skills_from_sections, the skills of the list "all" are the skills
\* of the technical categories, of soft_skills and of tools_software.
C29_Buckets ==
  fn \in {"extract_skills", "extract_skills_from_sections"} =>
    SkillSet(ret.val.all) = Bucketed(ret.val)
\* extract_skills_from_sections combined the skills of several sections
\* into a technical category, soft_skills and tools_software
C29_SeveralBuckets ==
  /\ fn = "extract_skills_from_sections"
  /\ Len(sections) > 1
  /\ ret.val.technical # <<>>
  /\ ret.val.soft_skills # <<>>
  /\ ret.val.tools_software # <<>>
  /\ ret.val.all # Sorted(SkillSet(extract_skills(Get(sections, "skills")).val.all))

(***************************************************************************)
(* Properties of a heading that is a title of several sections.            *)
(***************************************************************************)
\* the sections, as their places in the table, of which the line is a title
SectionsTitled(line) ==
  {k \in 1..Len(SectionOrder) :
     TitleKey(Strip(line), <<>>, "") \in SECTION_TITLES(SectionOrder[k])}

\* the position in the text of the line i of lines
RECURSIVE LinePosition(_, _)
LinePosition(lines, i) ==
  IF i = 1 THEN 0 ELSE LinePosition(lines, i - 1) + StrLen(lines[i - 1]) + 1

\* a boundary of the section n is at the position p
BoundaryAt(bounds, n, p) ==
  \E k \in 1..Len(bounds) : bounds[k].name = n /\ bounds[k].pos = p

\* the headings that are titles both of header and of profile
SummaryHeadings ==
  {<<"Profile">>, <<"Summary">>, Ph(<<"Professional", "Summary">>),
   Ph(<<"Executive", "Summary">>), Ph(<<"Career", "Summary">>)}

\* C30: a line that is a title of several sections starts the one of them
\* that comes first in the table and none of the others: the headings
\* Profile, Summary, Professional Summary, Executive Summary and Career
\* Summary start a header section and not a profile section, the heading
\* Languages a skills section and not a languages section.
C30_FirstInTable ==
  fn = "extract_sections" =>
    \A i \in 1..Len(SplitLines(arg)) :
      LET lines == SplitLines(arg)
          titled == SectionsTitled(lines[i])
          first == SectionOrder[Least(titled)]
          bounds == identify_section_boundaries(arg)
      IN titled # {} =>
           /\ identify_section_title(lines[i]) = first
           /\ BoundaryAt(bounds, first, LinePosition(lines, i))
           /\ \A k \in titled \ {Least(titled)} :
                ~BoundaryAt(bounds, SectionOrder[k], LinePosition(lines, i))
           /\ Strip(lines[i]) \in SummaryHeadings => first = "header"
           /\ Strip(lines[i]) = <<"Languages">> => first = "skills"

\* extract_sections was called on a text with the headings Summary, a title
\* of header and of profile, and Languages, a title of skills and of
\* languages, and a text under them
C30_SummaryAndLanguages ==
  /\ fn = "extract_sections"
  /\ \E i, j \in 1..Len(SplitLines(arg)) :
       /\ SplitLines(arg)[i] = <<"Summary">>
       /\ SectionsTitled(SplitLines(arg)[i]) = {1, 2}
       /\ SplitLines(arg)[j] = <<"Languages">>
       /\ Cardinality(SectionsTitled(SplitLines(arg)[j])) = 2
  /\ HasKey(ret.val, "skills") /\ Get(ret.val, "skills") # <<>>

====
